---- MODULE Spec2Model ----
(***************************************************************************)
(* Verification model of Scripts/tests/test-tool-call-parsers.py: the      *)
(* harness that starts one afm server per (parser, model) configuration,   *)
(* waits for it, sends the test requests, evaluates the answers, stops     *)
(* the server and writes the collected results.                            *)
(*                                                                         *)
(* Python text that is parsed or concatenated (argument strings, content)  *)
(* is a sequence of one-character strings; names and messages that are     *)
(* only compared are TLA+ strings.  A Python dict is a function built with *)
(* :> and @@.  Fields marked "ghost" are not in the program: they record   *)
(* what happened so that properties can refer to it.                       *)
(***************************************************************************)
EXTENDS Integers, Sequences, FiniteSets, TLC

VARIABLES
    args,       \* argparse namespace: parsers, include_large, no_regression, regression_only
    binary,     \* os.path.isfile(AFM_BINARY)
    cache,      \* models whose directory exists under MODEL_CACHE
    pc,         \* position of the single control thread
    mode,       \* "parser" in run_parser_tests, "regression" in run_regression_tests
    selected,   \* main: the list `selected`
    pi,         \* main: index of the parser loop
    ri,         \* main: index of the regression loop
    cur,        \* arguments of the running run_*_tests call
    cfgN,       \* ghost: number of configurations the loops have visited
    entered,    \* ghost: configurations for which a run function was entered
    results,    \* main: the list `results`
    proc,       \* run_*_tests: the local `proc` (NoProc is None)
    groups,     \* operating system: live processes of each spawned process group
    attempts,   \* wait_for_server: iterations of the polling loop so far
    waitRes,    \* wait_for_server: "pending", "true", "false" or "raise"
    ci,         \* run_*_tests: index of the test-case loop
    exc,        \* exception propagating out of the try body ("none" if none)
    killLog,    \* ghost: what the last kill_server call did
    kcalls,     \* ghost: number of kill_server calls on `proc`
    killed,     \* ghost: handles kill_server was invoked on
    returned,   \* ghost: handles whose run function has returned or unwound
    written,    \* the JSONL report: whether it was written, and the records in it
    status,     \* process exit: "running", "0", "1" or "traceback"
    cooled,     \* ghost: handles after whose stop the cool-down sleep has elapsed
    input,      \* SpecStream: the lines read from the stream; SpecEval: the arguments
    output,     \* SpecStream: the state of the streaming loop; SpecEval: the values returned
    logs        \* the open(log_path, "w") calls so far: path, ghost cfg, handle still open

vars == <<args, binary, cache, pc, mode, selected, pi, ri, cur, cfgN, entered, results,
          proc, groups, attempts, waitRes, ci, exc, killLog, kcalls, killed,
          returned, written, status, cooled, input, output, logs>>

----------------------------------------------------------------------------
(* Bounds of the model *)

\* wait_for_server: polling iterations before the deadline has certainly elapsed
MaxPolls == 2

\* kill_server applied repeatedly to one handle (SpecKill)
MaxKillCalls == 3

\* send_request: lines read from one event stream (SpecStream)
MaxLines == 4

\* evaluate_response applied repeatedly to one response (SpecEval)
MaxEvalCalls == 2

----------------------------------------------------------------------------
(* Configuration tables *)

Qwen30B   == "mlx-community/Qwen3-30B-A3B-4bit"
Llama70B  == "mlx-community/Llama-3.3-70B-Instruct-4bit-DWQ"
Gemma270M == "mlx-community/functiongemma-270m-it-bf16"
Devstral  == "mlx-community/mistralai_Devstral-Small-2-24B-Instruct-2512-MLX-8Bit"
CoderNext == "mlx-community/Qwen3-Coder-Next-4bit"
GLMFlash  == "mlx-community/GLM-4.7-Flash-4bit"

Models == {Qwen30B, Llama70B, Gemma270M, Devstral, CoderNext, GLMFlash}

\* Python None where a name, an id or a finish reason (TLA+ strings) may be null
None == "<None>"

\* `not x` for such a string
Falsy(x) == x \in {"", None}

\* PARSER_MODELS.keys() in insertion order
ParserKeys == <<"hermes", "llama3_json", "gemma", "mistral", "qwen3_xml">>

PARSER_MODELS ==
    [p \in {ParserKeys[i] : i \in 1..Len(ParserKeys)} |->
        CASE p = "hermes"      -> <<Qwen30B, "ChatML tokens available">>
          [] p = "llama3_json" -> <<Llama70B, "Llama 3.3 70B">>
          [] p = "gemma"       -> <<Gemma270M, "FunctionGemma 270M">>
          [] p = "mistral"     -> <<Devstral, "Devstral Small 2 24B 8-bit">>
          [] p = "qwen3_xml"   -> <<CoderNext, "Native Qwen3 XML">>]

\* PARSER_MODELS.get(p, default)
ParserModelsGet(p, default) ==
    IF p \in DOMAIN PARSER_MODELS THEN PARSER_MODELS[p] ELSE default

REGRESSION_MODELS ==
    << [model |-> GLMFlash,  description |-> "auto-detect .glm4",        large |-> TRUE],
       [model |-> Qwen30B,   description |-> "auto-detect qwen3_moe",    large |-> FALSE],
       [model |-> CoderNext, description |-> "auto-detect .xmlFunction", large |-> TRUE] >>

\* any(tag in model_id for tag in LARGE_MODELS), LARGE_MODELS =
\* ["Coder-Next", "70B", "397B", "Kimi-K2"]: the model ids containing a tag
HasLargeTag(model_id) == model_id \in {CoderNext, Llama70B}

\* TEST_CASES: (name, expected tool, stream); the prompt plays no part
TEST_CASES ==
    << [name |-> "weather_nonstream", expected |-> "get_weather", stream |-> FALSE],
       [name |-> "weather_stream",    expected |-> "get_weather", stream |-> TRUE],
       [name |-> "calc_nonstream",    expected |-> "calculate",   stream |-> FALSE],
       [name |-> "calc_stream",       expected |-> "calculate",   stream |-> TRUE] >>

regression_cases ==
    << [name |-> "weather_nonstream", expected |-> "get_weather", stream |-> FALSE],
       [name |-> "calc_stream",       expected |-> "calculate",   stream |-> TRUE] >>

\* the test cases of a run function
CasesOf(m) == IF m = "parser" THEN TEST_CASES ELSE regression_cases

\* model_id.split("/")[-1]
ModelShort(model_id) ==
    CASE model_id = Qwen30B   -> "Qwen3-30B-A3B-4bit"
      [] model_id = Llama70B  -> "Llama-3.3-70B-Instruct-4bit-DWQ"
      [] model_id = Gemma270M -> "functiongemma-270m-it-bf16"
      [] model_id = Devstral  -> "mistralai_Devstral-Small-2-24B-Instruct-2512-MLX-8Bit"
      [] model_id = CoderNext -> "Qwen3-Coder-Next-4bit"
      [] model_id = GLMFlash  -> "GLM-4.7-Flash-4bit"

\* f"auto:{model_id.split('/')[-1]}"
AutoLabel(model_id) == "auto:" \o ModelShort(model_id)

----------------------------------------------------------------------------
(* Python values.  A slot that may hold values of several types holds a    *)
(* tagged value [t, v]; a dict is a function, an absent key is a key not   *)
(* in its DOMAIN.                                                          *)

PyNone    == [t |-> "NoneType", v |-> <<>>]
PyStr(s)  == [t |-> "str",  v |-> s]
PyInt(n)  == [t |-> "int",  v |-> <<n>>]
PyBool(b) == [t |-> "bool", v |-> <<b>>]
PyList(l) == [t |-> "list", v |-> l]
PyDict(d) == [t |-> "dict", v |-> d]
EmptyDict == <<>>

\* d.get(k, default)
Get(d, k, default) == IF k \in DOMAIN d THEN d[k] ELSE default

\* bool(x) of a tagged value
Truthy(x) ==
    CASE x.t = "NoneType" -> FALSE
      [] x.t = "str"      -> Len(x.v) > 0
      [] x.t = "list"     -> Len(x.v) > 0
      [] x.t = "dict"     -> DOMAIN x.v # {}
      [] x.t = "int"      -> x.v[1] # 0
      [] x.t = "bool"     -> x.v[1]
      [] OTHER            -> TRUE

----------------------------------------------------------------------------
(* json.loads on a str: a recursive-descent parser over the characters.    *)
(* A result is [ok, next, val]: next is the index after the value.         *)

Quote == "\""
Digits == {"0", "1", "2", "3", "4", "5", "6", "7", "8", "9"}
JsonFail == [ok |-> FALSE, next |-> 0, val |-> PyNone]
JsonOk(n, x) == [ok |-> TRUE, next |-> n, val |-> x]

\* the first index from i on that holds no blank (Len(s) + 1 if there is none)
SkipWs(s, i) ==
    LET rest == {j \in i..Len(s) : s[j] # " "} IN
    IF i > Len(s) THEN i
    ELSE IF rest = {} THEN Len(s) + 1
    ELSE CHOOSE j \in rest : \A k \in rest : j <= k

\* index of the closing quote of the string whose opening quote is before i, or 0
RECURSIVE StringEnd(_, _)
StringEnd(s, i) ==
    IF i > Len(s) THEN 0
    ELSE IF s[i] = Quote THEN i
    ELSE IF s[i] = "\\" THEN StringEnd(s, i + 2)
    ELSE StringEnd(s, i + 1)

RECURSIVE NumberEnd(_, _)
NumberEnd(s, i) == IF i <= Len(s) /\ s[i] \in Digits THEN NumberEnd(s, i + 1) ELSE i

\* s[i:].startswith(w)
StartsWith(s, i, w) ==
    /\ i + Len(w) - 1 <= Len(s)
    /\ \A k \in 1..Len(w) : s[i + k - 1] = w[k]

RECURSIVE DecimalValue(_)
DecimalValue(d) ==
    IF d = <<>> THEN 0
    ELSE 10 * DecimalValue(SubSeq(d, 1, Len(d) - 1))
         + (CHOOSE n \in 0..9 : ToString(n) = d[Len(d)])

RECURSIVE ParseValue(_, _), ParseMembers(_, _, _), ParseElements(_, _, _)
ParseValue(s, i0) ==
    LET i == SkipWs(s, i0) IN
    IF i > Len(s) THEN JsonFail
    ELSE IF s[i] = Quote THEN
        LET j == StringEnd(s, i + 1) IN
        IF j = 0 THEN JsonFail ELSE JsonOk(j + 1, PyStr(SubSeq(s, i + 1, j - 1)))
    ELSE IF s[i] \in Digits THEN
        LET j == NumberEnd(s, i) IN JsonOk(j, PyInt(DecimalValue(SubSeq(s, i, j - 1))))
    ELSE IF StartsWith(s, i, <<"n", "u", "l", "l">>) THEN JsonOk(i + 4, PyNone)
    ELSE IF StartsWith(s, i, <<"t", "r", "u", "e">>) THEN JsonOk(i + 4, PyBool(TRUE))
    ELSE IF StartsWith(s, i, <<"f", "a", "l", "s", "e">>) THEN JsonOk(i + 5, PyBool(FALSE))
    ELSE IF s[i] = "{" THEN
        LET j == SkipWs(s, i + 1) IN
        IF j <= Len(s) /\ s[j] = "}" THEN JsonOk(j + 1, PyDict(EmptyDict))
        ELSE ParseMembers(s, j, EmptyDict)
    ELSE IF s[i] = "[" THEN
        LET j == SkipWs(s, i + 1) IN
        IF j <= Len(s) /\ s[j] = "]" THEN JsonOk(j + 1, PyList(<<>>))
        ELSE ParseElements(s, j, <<>>)
    ELSE JsonFail

\* the members of an object after "{" or ",": "key" : value, then "," or "}"
ParseMembers(s, i0, d) ==
    LET i == SkipWs(s, i0) IN
    IF i > Len(s) \/ s[i] # Quote THEN JsonFail
    ELSE
        LET j == StringEnd(s, i + 1) IN
        IF j = 0 THEN JsonFail
        ELSE
            LET key == SubSeq(s, i + 1, j - 1)
                c   == SkipWs(s, j + 1)
            IN
            IF c > Len(s) \/ s[c] # ":" THEN JsonFail
            ELSE
                LET r == ParseValue(s, c + 1) IN
                IF ~r.ok THEN JsonFail
                ELSE
                    LET e  == SkipWs(s, r.next)
                        d2 == (key :> r.val) @@ d
                    IN
                    IF e > Len(s) THEN JsonFail
                    ELSE IF s[e] = "}" THEN JsonOk(e + 1, PyDict(d2))
                    ELSE IF s[e] = "," THEN ParseMembers(s, e + 1, d2)
                    ELSE JsonFail

\* the elements of an array after "[" or ",": value, then "," or "]"
ParseElements(s, i0, l) ==
    LET r == ParseValue(s, i0) IN
    IF ~r.ok THEN JsonFail
    ELSE
        LET e == SkipWs(s, r.next) IN
        IF e > Len(s) THEN JsonFail
        ELSE IF s[e] = "]" THEN JsonOk(e + 1, PyList(Append(l, r.val)))
        ELSE IF s[e] = "," THEN ParseElements(s, e + 1, Append(l, r.val))
        ELSE JsonFail

\* json.loads(x) for a tagged value x: [exc, val]; exc is "none", "TypeError"
\* (x is not a str) or "JSONDecodeError"
JsonLoads(x) ==
    IF x.t # "str" THEN [exc |-> "TypeError", val |-> PyNone]
    ELSE
        LET r == ParseValue(x.v, 1) IN
        IF r.ok /\ SkipWs(x.v, r.next) = Len(x.v) + 1
        THEN [exc |-> "none", val |-> r.val]
        ELSE [exc |-> "JSONDecodeError", val |-> PyNone]

\* Python text used by the model
CITY       == <<"c", "i", "t", "y">>
EXPRESSION == <<"e", "x", "p", "r", "e", "s", "s", "i", "o", "n">>

----------------------------------------------------------------------------
(* send_request *)

\* content[:200] and args_str[:500]
SnippetLen == 200
RawLen     == 500
Prefix(s, n) == SubSeq(s, 1, IF Len(s) < n THEN Len(s) ELSE n)

\* FoldToolCall with the argument text assigned instead of appended (the bug
\* of `=` written for `+=`)
FoldToolCallOverwrite(tool_calls, tc) ==
    IF "index" \notin DOMAIN tc THEN [exc |-> "KeyError", tool_calls |-> tool_calls]
    ELSE
        LET idx  == tc["index"]
            tc0  == IF idx \in DOMAIN tool_calls THEN tool_calls
                    ELSE (idx :> [id |-> Get(tc, "id", ""), name |-> "",
                                  arguments |-> <<>>]) @@ tool_calls
            tc1  == IF ~Falsy(Get(tc, "id", None))
                    THEN [tc0 EXCEPT ![idx].id = tc["id"]] ELSE tc0
            func == Get(tc, "function", EmptyDict)
            tc2  == IF ~Falsy(Get(func, "name", None))
                    THEN [tc1 EXCEPT ![idx].name = func["name"]] ELSE tc1
            a    == Get(func, "arguments", PyNone)
        IN
        IF ~Truthy(a) THEN [exc |-> "none", tool_calls |-> tc2]
        ELSE IF a.t # "str" THEN [exc |-> "TypeError", tool_calls |-> tc2]
        ELSE [exc |-> "none",
              tool_calls |-> [tc2 EXCEPT ![idx].arguments = a.v]]

\* FoldToolCall with the id and the name kept once they are set (the bug of
\* `if not tool_calls[idx]["name"]` guarding the assignments)
FoldToolCallFirstWins(tool_calls, tc) ==
    IF "index" \notin DOMAIN tc THEN [exc |-> "KeyError", tool_calls |-> tool_calls]
    ELSE
        LET idx  == tc["index"]
            tc0  == IF idx \in DOMAIN tool_calls THEN tool_calls
                    ELSE (idx :> [id |-> Get(tc, "id", ""), name |-> "",
                                  arguments |-> <<>>]) @@ tool_calls
            tc1  == IF ~Falsy(Get(tc, "id", None)) /\ Falsy(tc0[idx].id)
                    THEN [tc0 EXCEPT ![idx].id = tc["id"]] ELSE tc0
            func == Get(tc, "function", EmptyDict)
            tc2  == IF ~Falsy(Get(func, "name", None)) /\ Falsy(tc1[idx].name)
                    THEN [tc1 EXCEPT ![idx].name = func["name"]] ELSE tc1
            a    == Get(func, "arguments", PyNone)
        IN
        IF ~Truthy(a) THEN [exc |-> "none", tool_calls |-> tc2]
        ELSE IF a.t # "str" THEN [exc |-> "TypeError", tool_calls |-> tc2]
        ELSE [exc |-> "none",
              tool_calls |-> [tc2 EXCEPT ![idx].arguments = @ \o a.v]]

\* FoldToolCall with the id and the name assigned from every entry (the bug
\* of the `if tc.get("id")` and `if func.get("name")` guards left out)
FoldToolCallClearing(tool_calls, tc) ==
    IF "index" \notin DOMAIN tc THEN [exc |-> "KeyError", tool_calls |-> tool_calls]
    ELSE
        LET idx  == tc["index"]
            tc0  == IF idx \in DOMAIN tool_calls THEN tool_calls
                    ELSE (idx :> [id |-> Get(tc, "id", ""), name |-> "",
                                  arguments |-> <<>>]) @@ tool_calls
            tc1  == [tc0 EXCEPT ![idx].id = Get(tc, "id", "")]
            func == Get(tc, "function", EmptyDict)
            tc2  == [tc1 EXCEPT ![idx].name = Get(func, "name", "")]
            a    == Get(func, "arguments", PyNone)
        IN
        IF ~Truthy(a) THEN [exc |-> "none", tool_calls |-> tc2]
        ELSE IF a.t # "str" THEN [exc |-> "TypeError", tool_calls |-> tc2]
        ELSE [exc |-> "none",
              tool_calls |-> [tc2 EXCEPT ![idx].arguments = @ \o a.v]]

\* One entry of delta["tool_calls"] folded into the fragment mapping
\* (a function from index to [id, name, arguments]); [exc, tool_calls].
FoldToolCall(tool_calls, tc) ==
    IF "index" \notin DOMAIN tc THEN [exc |-> "KeyError", tool_calls |-> tool_calls]
    ELSE
        LET idx  == tc["index"]
            tc0  == IF idx \in DOMAIN tool_calls THEN tool_calls
                    ELSE (idx :> [id |-> Get(tc, "id", ""), name |-> "",
                                  arguments |-> <<>>]) @@ tool_calls
            tc1  == IF ~Falsy(Get(tc, "id", None))
                    THEN [tc0 EXCEPT ![idx].id = tc["id"]] ELSE tc0
            func == Get(tc, "function", EmptyDict)
            tc2  == IF ~Falsy(Get(func, "name", None))
                    THEN [tc1 EXCEPT ![idx].name = func["name"]] ELSE tc1
            a    == Get(func, "arguments", PyNone)
        IN
        IF ~Truthy(a) THEN [exc |-> "none", tool_calls |-> tc2]
        ELSE IF a.t # "str" THEN [exc |-> "TypeError", tool_calls |-> tc2]
        ELSE [exc |-> "none",
              tool_calls |-> [tc2 EXCEPT ![idx].arguments = @ \o a.v]]

\* for tc in delta["tool_calls"]
RECURSIVE FoldToolCalls(_, _, _)
FoldToolCalls(tool_calls, tcs, k) ==
    IF k > Len(tcs) THEN [exc |-> "none", tool_calls |-> tool_calls]
    ELSE
        LET r == FoldToolCall(tool_calls, tcs[k]) IN
        IF r.exc # "none" THEN r ELSE FoldToolCalls(r.tool_calls, tcs, k + 1)

\* The state of the streaming loop before its first line
StreamInit ==
    [tool_calls |-> EmptyDict, content_parts |-> <<>>, finish_reason |-> None,
     usage |-> EmptyDict, exc |-> "none", done |-> FALSE]

\* FoldLine with a data line that cannot be folded skipped (the bug of a
\* try/except: continue around the body of the loop)
FoldLineSkipsBad(st, line) ==
    IF line.kind \in {"blank", "other", "bad"} THEN st
    ELSE IF line.kind = "done" THEN [st EXCEPT !.done = TRUE]
    ELSE
        LET chunk == line.chunk IN
        IF "choices" \notin DOMAIN chunk THEN st
        ELSE IF Len(chunk["choices"]) = 0 THEN st
        ELSE
            LET choice == chunk["choices"][1]
                delta  == Get(choice, "delta", EmptyDict)
                fr     == Get(choice, "finish_reason", None)
                st1    == IF ~Falsy(fr) THEN [st EXCEPT !.finish_reason = fr] ELSE st
                st2    == IF DOMAIN Get(chunk, "usage", EmptyDict) # {}
                          THEN [st1 EXCEPT !.usage = chunk["usage"]] ELSE st1
                tcs    == Get(delta, "tool_calls", PyNone)
                r      == IF Truthy(tcs)
                          THEN FoldToolCalls(st2.tool_calls, tcs.v, 1)
                          ELSE [exc |-> "none", tool_calls |-> st2.tool_calls]
                c      == Get(delta, "content", PyNone)
            IN
            IF r.exc # "none" THEN st2
            ELSE IF Truthy(c)
            THEN [st2 EXCEPT !.tool_calls = r.tool_calls,
                             !.content_parts = Append(@, c.v)]
            ELSE [st2 EXCEPT !.tool_calls = r.tool_calls]

\* FoldLine with the sentinel skipped like a blank line (the bug of
\* `continue` written for `break`)
FoldLineDoneSkipped(st, line) ==
    IF line.kind \in {"blank", "other", "done"} THEN st
    ELSE IF line.kind = "bad" THEN [st EXCEPT !.exc = "JSONDecodeError"]
    ELSE
        LET chunk == line.chunk IN
        IF "choices" \notin DOMAIN chunk THEN [st EXCEPT !.exc = "KeyError"]
        ELSE IF Len(chunk["choices"]) = 0 THEN [st EXCEPT !.exc = "IndexError"]
        ELSE
            LET choice == chunk["choices"][1]
                delta  == Get(choice, "delta", EmptyDict)
                fr     == Get(choice, "finish_reason", None)
                st1    == IF ~Falsy(fr) THEN [st EXCEPT !.finish_reason = fr] ELSE st
                st2    == IF DOMAIN Get(chunk, "usage", EmptyDict) # {}
                          THEN [st1 EXCEPT !.usage = chunk["usage"]] ELSE st1
                tcs    == Get(delta, "tool_calls", PyNone)
                r      == IF Truthy(tcs)
                          THEN FoldToolCalls(st2.tool_calls, tcs.v, 1)
                          ELSE [exc |-> "none", tool_calls |-> st2.tool_calls]
                c      == Get(delta, "content", PyNone)
            IN
            IF r.exc # "none" THEN [st2 EXCEPT !.exc = r.exc]
            ELSE IF Truthy(c)
            THEN [st2 EXCEPT !.tool_calls = r.tool_calls,
                             !.content_parts = Append(@, c.v)]
            ELSE [st2 EXCEPT !.tool_calls = r.tool_calls]

\* One line of the event stream folded into the state st.  A line is
\* [kind, chunk]: kind "blank" (empty after strip), "other" (no "data: "
\* prefix), "done" (data: [DONE]), "bad" (data: text that json.loads rejects)
\* or "data" (data: a JSON object, chunk).
FoldLine(st, line) ==
    IF line.kind \in {"blank", "other"} THEN st
    ELSE IF line.kind = "done" THEN [st EXCEPT !.done = TRUE]
    ELSE IF line.kind = "bad" THEN [st EXCEPT !.exc = "JSONDecodeError"]
    ELSE
        LET chunk == line.chunk IN
        IF "choices" \notin DOMAIN chunk THEN [st EXCEPT !.exc = "KeyError"]
        ELSE IF Len(chunk["choices"]) = 0 THEN [st EXCEPT !.exc = "IndexError"]
        ELSE
            LET choice == chunk["choices"][1]
                delta  == Get(choice, "delta", EmptyDict)
                fr     == Get(choice, "finish_reason", None)
                st1    == IF ~Falsy(fr) THEN [st EXCEPT !.finish_reason = fr] ELSE st
                st2    == IF DOMAIN Get(chunk, "usage", EmptyDict) # {}
                          THEN [st1 EXCEPT !.usage = chunk["usage"]] ELSE st1
                tcs    == Get(delta, "tool_calls", PyNone)
                r      == IF Truthy(tcs)
                          THEN FoldToolCalls(st2.tool_calls, tcs.v, 1)
                          ELSE [exc |-> "none", tool_calls |-> st2.tool_calls]
                c      == Get(delta, "content", PyNone)
            IN
            IF r.exc # "none" THEN [st2 EXCEPT !.exc = r.exc]
            ELSE IF Truthy(c)
            THEN [st2 EXCEPT !.tool_calls = r.tool_calls,
                             !.content_parts = Append(@, c.v)]
            ELSE [st2 EXCEPT !.tool_calls = r.tool_calls]

\* for raw_line in resp: ... until [DONE], an exception or the end of the stream
RECURSIVE FoldLines(_, _, _)
FoldLines(st, lines, k) ==
    IF k > Len(lines) \/ st.done \/ st.exc # "none" THEN st
    ELSE FoldLines(FoldLine(st, lines[k]), lines, k + 1)

\* "".join(parts)
RECURSIVE Join(_)
Join(parts) == IF parts = <<>> THEN <<>> ELSE Head(parts) \o Join(Tail(parts))

\* the keys in descending order (the bug of sorted(..., reverse=True))
RECURSIVE SortedKeysDescending(_)
SortedKeysDescending(S) ==
    IF S = {} THEN <<>>
    ELSE LET m == CHOOSE x \in S : \A y \in S : x >= y
         IN <<m>> \o SortedKeysDescending(S \ {m})

\* sorted(tool_calls.keys()) as a sequence
RECURSIVE SortedKeys(_)
SortedKeys(S) ==
    IF S = {} THEN <<>>
    ELSE LET m == CHOOSE x \in S : \A y \in S : x <= y IN <<m>> \o SortedKeys(S \ {m})

\* StreamChoices with no choice when the stream carried nothing (the bug
\* of `choices = [...] if content_parts or tool_calls else []`)
StreamChoicesEmptyWhenNoDelta(st) ==
    LET keys    == SortedKeys(DOMAIN st.tool_calls)
        tc_list == [k \in 1..Len(keys) |->
                      ("id" :> st.tool_calls[keys[k]].id)
                      @@ ("type" :> "function")
                      @@ ("function" :>
                            (("name" :> st.tool_calls[keys[k]].name)
                             @@ ("arguments" :> PyStr(st.tool_calls[keys[k]].arguments))))]
        message == ("content" :> PyStr(Join(st.content_parts)))
                   @@ ("tool_calls" :> IF Len(tc_list) > 0 THEN PyList(tc_list) ELSE PyNone)
    IN IF st.content_parts = <<>> /\ Len(tc_list) = 0 THEN <<>>
       ELSE << ("message" :> PyDict(message)) @@ ("finish_reason" :> st.finish_reason) >>

\* StreamChoices with the finish reason of the stream dropped (the bug of
\* "finish_reason": None in the synthetic choice)
StreamChoicesNoFinish(st) ==
    LET keys    == SortedKeys(DOMAIN st.tool_calls)
        tc_list == [k \in 1..Len(keys) |->
                      ("id" :> st.tool_calls[keys[k]].id)
                      @@ ("type" :> "function")
                      @@ ("function" :>
                            (("name" :> st.tool_calls[keys[k]].name)
                             @@ ("arguments" :> PyStr(st.tool_calls[keys[k]].arguments))))]
        message == ("content" :> PyStr(Join(st.content_parts)))
                   @@ ("tool_calls" :> IF Len(tc_list) > 0 THEN PyList(tc_list) ELSE PyNone)
    IN << ("message" :> PyDict(message)) @@ ("finish_reason" :> None) >>

\* The synthetic choices structure built after the stream
StreamChoices(st) ==
    LET keys    == SortedKeys(DOMAIN st.tool_calls)
        tc_list == [k \in 1..Len(keys) |->
                      ("id" :> st.tool_calls[keys[k]].id)
                      @@ ("type" :> "function")
                      @@ ("function" :>
                            (("name" :> st.tool_calls[keys[k]].name)
                             @@ ("arguments" :> PyStr(st.tool_calls[keys[k]].arguments))))]
        message == ("content" :> PyStr(Join(st.content_parts)))
                   @@ ("tool_calls" :> IF Len(tc_list) > 0 THEN PyList(tc_list) ELSE PyNone)
    IN << ("message" :> PyDict(message)) @@ ("finish_reason" :> st.finish_reason) >>

\* send_request(port, prompt, tools, stream): what it returns or raises for
\* the server's reply.  A reply is [error, body, lines]: error is the
\* exception urlopen or the decoding of the body raises ("none" if none),
\* body the decoded JSON object of a non-streamed answer, lines the event
\* stream of a streamed one.  The result is [exc, result].
send_request(reply, stream) ==
    IF reply.error # "none" THEN [exc |-> reply.error, result |-> EmptyDict]
    ELSE IF ~stream THEN
        [exc |-> "none",
         result |-> [choices |-> Get(reply.body, "choices", <<>>),
                     usage   |-> Get(reply.body, "usage", EmptyDict)]]
    ELSE
        LET st == FoldLines(StreamInit, reply.lines, 1) IN
        IF st.exc # "none" THEN [exc |-> st.exc, result |-> EmptyDict]
        ELSE [exc |-> "none",
              result |-> [choices |-> StreamChoices(st), usage |-> st.usage]]

----------------------------------------------------------------------------
(* evaluate_response *)

\* evaluate_response(result, expected_tool): [exc, passed, details]; exc is
\* the exception that escapes it ("none" if it returns).  The elapsed time
\* (details["elapsed_s"]) is left out.
evaluate_response(result, expected_tool) ==
    LET Ret(p, d) == [exc |-> "none", passed |-> p, details |-> d]
        Raise(e)  == [exc |-> e, passed |-> FALSE, details |-> EmptyDict]
    IN
    IF Len(result.choices) = 0
    THEN Ret(FALSE, "error" :> <<"No choices in response">>)
    ELSE
    LET choice == result.choices[1]
        msg    == Get(choice, "message", PyDict(EmptyDict))
        finish == Get(choice, "finish_reason", "")
    IN
    IF msg.t # "dict" THEN Raise("AttributeError")
    ELSE
    LET tcs        == Get(msg.v, "tool_calls", PyNone)
        tool_calls == IF Truthy(tcs) THEN tcs.v ELSE <<>>
        c          == Get(msg.v, "content", PyStr(<<>>))
        content    == IF Truthy(c) THEN c.v ELSE <<>>
    IN
    IF ~Falsy(expected_tool) THEN
        IF Len(tool_calls) = 0
        THEN Ret(FALSE, ("error" :> <<"Expected tool_calls but got none">>)
                        @@ ("finish_reason" :> finish)
                        @@ ("content_snippet" :> Prefix(content, SnippetLen)))
        ELSE
        LET tc       == tool_calls[1]
            func     == Get(tc, "function", EmptyDict)
            name     == Get(func, "name", "")
            args_str == Get(func, "arguments", PyStr(<<>>))
            loaded   == JsonLoads(args_str)
            parsed   == loaded.val
        IN
        IF name # expected_tool
        THEN Ret(FALSE, ("error" :> <<"Expected tool", expected_tool, "but got", name>>)
                        @@ ("tool_calls" :> tool_calls))
        ELSE IF loaded.exc = "TypeError" THEN Raise("TypeError")
        ELSE IF loaded.exc = "JSONDecodeError"
        THEN Ret(FALSE, ("error" :> <<"Invalid JSON arguments">>)
                        @@ ("arguments_raw" :> Prefix(args_str.v, RawLen)))
        ELSE IF parsed.t # "dict"
        THEN Ret(FALSE, ("error" :> <<"Arguments not a dict", parsed.t>>)
                        @@ ("arguments_raw" :> args_str.v))
        ELSE IF expected_tool = "get_weather" /\ CITY \notin DOMAIN parsed.v
        THEN Ret(FALSE, ("error" :> <<"Missing 'city' key in arguments">>)
                        @@ ("arguments" :> parsed.v))
        ELSE IF expected_tool = "calculate" /\ EXPRESSION \notin DOMAIN parsed.v
        THEN Ret(FALSE, ("error" :> <<"Missing 'expression' key in arguments">>)
                        @@ ("arguments" :> parsed.v))
        ELSE Ret(TRUE, ("tool_name" :> name)
                       @@ ("arguments" :> parsed.v)
                       @@ ("finish_reason" :> finish)
                       @@ ("num_tool_calls" :> Len(tool_calls)))
    ELSE
        IF Len(tool_calls) > 0
        THEN Ret(FALSE, ("error" :> <<"Got unexpected tool_calls">>)
                        @@ ("tool_calls" :> tool_calls))
        ELSE Ret(TRUE, ("content_snippet" :> Prefix(content, SnippetLen))
                       @@ ("finish_reason" :> finish))

----------------------------------------------------------------------------
(* The server process: handle, process group, start_server, kill_server *)

\* A Popen handle with the attributes start_server adds: returncode is None
\* until poll() or wait() has seen the lead process exit.
NoProc == [id |-> 0, returncode |-> None, log_open |-> FALSE, log_path |-> ""]

\* os.path.join(REPORT_DIR, f"server-{label}-{port}.log"), label = parser or "auto"
LogPath(parser) == "server-" \o (IF Falsy(parser) THEN "auto" ELSE parser) \o ".log"

\* the process groups that still hold a live process
LiveGroups == {g \in 1..Len(groups) : groups[g] # {}}

\* some server process is listening on the port
Listening == \E g \in 1..Len(groups) : "lead" \in groups[g]

\* proc.poll(): sets returncode once the lead process of group g has exited
poll(h, g) ==
    IF h.returncode # None \/ "lead" \in g THEN h
    ELSE [h EXCEPT !.returncode = "exited"]

\* What the environment does during one kill_server call: whether getpgid or
\* killpg raises in each phase, whether the lead process exits within each
\* wait, and whether a subprocess of the group dies on each signal.
KillOutcomes ==
    [term : {"ok", "raise"}, wait1 : {"exit", "timeout"}, child1 : BOOLEAN,
     kill : {"ok", "raise"}, wait2 : {"exit", "timeout"}, child2 : BOOLEAN]

\* A signal delivered to the group g followed by proc.wait: the processes left
AfterSignal(g, leadExits, childDies) ==
    (g \ (IF leadExits THEN {"lead"} ELSE {})) \ (IF childDies THEN {"child"} ELSE {})

\* try: os.killpg(os.getpgid(proc.pid), signal.SIGTERM); proc.wait(timeout=10)
GracefulPhase(g, o) ==
    IF o.term = "raise"
    THEN [events |-> <<>>, group |-> g, outcome |-> "raised"]
    ELSE [events |-> <<"SIGTERM", "wait(10)">>,
          group |-> AfterSignal(g, o.wait1 = "exit", o.child1),
          outcome |-> IF o.wait1 = "exit" THEN "exited" ELSE "timeout"]

\* except Exception: try: os.killpg(..., signal.SIGKILL); proc.wait(timeout=5)
\*                   except Exception: pass
ForcedPhase(g, o) ==
    IF o.kill = "raise"
    THEN [events |-> <<>>, group |-> g, outcome |-> "raised"]
    ELSE [events |-> <<"SIGKILL", "wait(5)">>,
          group |-> AfterSignal(g, o.wait2 = "exit", o.child2),
          outcome |-> IF o.wait2 = "exit" THEN "exited" ELSE "timeout"]

\* Terminate with the forced phase run after the graceful phase whatever its
\* outcome (the bug of a `finally` written for the `except`)
TerminateAlwaysForces(h, g, o) ==
    LET h1 == poll(h, g) IN
    IF h.id = 0 \/ h1.returncode # None
    THEN [proc |-> h1, group |-> g, events |-> <<>>, live |-> FALSE,
          graceful |-> "skipped", forced |-> "skipped"]
    ELSE
        LET gp == GracefulPhase(g, o)
            fp == ForcedPhase(gp.group, o)
        IN
        [proc |-> IF "exited" \in {gp.outcome, fp.outcome}
                  THEN [h1 EXCEPT !.returncode = "exited"] ELSE h1,
         group |-> fp.group, events |-> gp.events \o fp.events, live |-> TRUE,
         graceful |-> gp.outcome, forced |-> fp.outcome]

\* Terminate without the `proc.poll() is None` guard (the bug of `if proc:`)
TerminateNoPoll(h, g, o) ==
    LET gp == GracefulPhase(g, o) IN
    IF h.id = 0
    THEN [proc |-> h, group |-> g, events |-> <<>>, live |-> FALSE,
          graceful |-> "skipped", forced |-> "skipped"]
    ELSE IF gp.outcome = "exited"
    THEN [proc |-> [h EXCEPT !.returncode = "exited"], group |-> gp.group,
          events |-> gp.events, live |-> TRUE,
          graceful |-> "exited", forced |-> "skipped"]
    ELSE
        LET fp == ForcedPhase(gp.group, o) IN
        [proc |-> IF fp.outcome = "exited"
                  THEN [h EXCEPT !.returncode = "exited"] ELSE h,
         group |-> fp.group, events |-> gp.events \o fp.events, live |-> TRUE,
         graceful |-> gp.outcome, forced |-> fp.outcome]

\* if proc and proc.poll() is None: graceful phase, forced phase on exception
Terminate(h, g, o) ==
    LET h1 == poll(h, g) IN
    IF h.id = 0 \/ h1.returncode # None
    THEN [proc |-> h1, group |-> g, events |-> <<>>, live |-> FALSE,
          graceful |-> "skipped", forced |-> "skipped"]
    ELSE
        LET gp == GracefulPhase(g, o) IN
        IF gp.outcome = "exited"
        THEN [proc |-> [h1 EXCEPT !.returncode = "exited"], group |-> gp.group,
              events |-> gp.events, live |-> TRUE,
              graceful |-> "exited", forced |-> "skipped"]
        ELSE
            LET fp == ForcedPhase(gp.group, o) IN
            [proc |-> IF fp.outcome = "exited"
                      THEN [h1 EXCEPT !.returncode = "exited"] ELSE h1,
             group |-> fp.group, events |-> gp.events \o fp.events, live |-> TRUE,
             graceful |-> gp.outcome, forced |-> fp.outcome]

\* CloseLog with the close inside the `if ... proc.poll() is None` block
CloseLogIfLive(t) ==
    IF t.proc.id = 0 \/ ~t.live THEN t ELSE [t EXCEPT !.proc.log_open = FALSE]

\* if hasattr(proc, '_log_file'): try: proc._log_file.close() except: pass
\* (a close() that raises has released the descriptor all the same)
CloseLog(t) ==
    IF t.proc.id = 0 THEN t ELSE [t EXCEPT !.proc.log_open = FALSE]

\* kill_server(proc) on handle h whose group holds the processes g:
\* [proc, group, events, live, graceful, forced]. No exception escapes it.
kill_server(h, g, o) == CloseLog(Terminate(h, g, o))

\* ghost: the record kept of a kill_server call
KillRecord(h, g, r) ==
    [before |-> h, beforeGroup |-> g, after |-> r.proc, afterGroup |-> r.group,
     events |-> r.events, live |-> r.live, graceful |-> r.graceful,
     forced |-> r.forced]

NoKill == KillRecord(NoProc, {}, kill_server(NoProc, {}, CHOOSE o \in KillOutcomes : TRUE))

----------------------------------------------------------------------------
(* Inputs of a run *)

\* --parsers after split(","); the empty list is "option not given"
ArgParsers == {<<>>, <<"qwen3_xml">>, <<"bogus", "gemma">>}

\* the model directories present under MODEL_CACHE (Init takes the cache
\* with two models only with the parser list that runs no parser
\* configuration, so that a run starts at most two servers)
CacheChoices == {{}, {Qwen30B}, {Gemma270M}, {GLMFlash, Qwen30B}}

\* Text of tool-call arguments
ArgsCity == <<"{", Quote>> \o CITY \o <<Quote, ":", Quote, "T", Quote, "}">>
ArgsExpr == <<"{", Quote>> \o EXPRESSION \o <<Quote, ":", Quote, "1", Quote, "}">>

ToolCall(id, name, arguments) ==
    ("id" :> id) @@ ("type" :> "function")
    @@ ("function" :> (("name" :> name) @@ ("arguments" :> arguments)))

Choice(message, finish) == ("message" :> message) @@ ("finish_reason" :> finish)

Message(content, tool_calls) == ("content" :> content) @@ ("tool_calls" :> tool_calls)

Body(choices) == ("choices" :> choices) @@ ("usage" :> EmptyDict)

BodyReply(choices) == [error |-> "none", body |-> Body(choices), lines |-> <<>>]
ErrorReply(e)      == [error |-> e, body |-> EmptyDict, lines |-> <<>>]
StreamReply(lines) == [error |-> "none", body |-> EmptyDict, lines |-> lines]

DataLine(delta, finish) ==
    [kind |-> "data",
     chunk |-> "choices" :> << ("delta" :> delta) @@ ("finish_reason" :> finish) >>]
DoneLine  == [kind |-> "done",  chunk |-> EmptyDict]
BlankLine == [kind |-> "blank", chunk |-> EmptyDict]

\* One tool call streamed as a name delta and two argument deltas
StreamedCall(name, arguments) ==
    << DataLine("tool_calls" :> PyList(<< ("index" :> 0) @@ ("id" :> "call_1")
                    @@ ("function" :> (("name" :> name)
                         @@ ("arguments" :> PyStr(SubSeq(arguments, 1, 3))))) >>), None),
       BlankLine,
       DataLine("tool_calls" :> PyList(<< ("index" :> 0)
                    @@ ("function" :> ("arguments" :>
                          PyStr(SubSeq(arguments, 4, Len(arguments))))) >>), "tool_calls"),
       DoneLine >>

\* A streamed tool call interrupted by a data line that cannot be folded
BrokenCall(name, arguments, badLine) ==
    << DataLine("tool_calls" :> PyList(<< ("index" :> 0) @@ ("id" :> "call_1")
                    @@ ("function" :> (("name" :> name)
                         @@ ("arguments" :> PyStr(arguments)))) >>), None),
       badLine,
       DoneLine >>

\* data lines that cannot be folded: text that is not JSON, and a chunk
\* with an empty choices list (a usage-only chunk)
BadLine       == [kind |-> "bad", chunk |-> EmptyDict]
UsageOnlyLine == [kind |-> "data", chunk |-> ("choices" :> <<>>) @@ ("usage" :> EmptyDict)]

\* What a listening server may answer to a request
ServerReplies(stream) ==
    IF stream
    THEN { StreamReply(StreamedCall("get_weather", ArgsCity)),
           StreamReply(BrokenCall("get_weather", ArgsCity, BadLine)) }
    ELSE { BodyReply(<< Choice(PyDict(Message(PyNone,
                          PyList(<<ToolCall("call_1", "get_weather", PyStr(ArgsCity))>>))),
                          "tool_calls") >>),
           BodyReply(<< Choice(PyNone, "stop") >>) }

\* What urlopen can raise whether or not a server listens (refused, timed out)
TransportErrors == {"URLError"}

\* The replies possible in the current state
Replies(stream) ==
    {ErrorReply(e) : e \in TransportErrors}
    \cup (IF Listening THEN ServerReplies(stream) ELSE {})

----------------------------------------------------------------------------
(* The harness *)

NotWritten == [done |-> FALSE, records |-> <<>>]

\* the fields every record of `results` has; cfg and mode are ghosts: the
\* ordinal of the configuration, in the order the loops of main visit them,
\* and the loop it belongs to
Record(parser, model, test, passed, details) ==
    [cfg |-> cfgN, mode |-> mode, parser |-> parser, model |-> model, test |-> test,
     passed |-> passed, details |-> details]

\* `selected` as main computes it (lines 723-738)
RECURSIVE FilterLarge(_)
FilterLarge(sel) ==
    IF sel = <<>> THEN <<>>
    ELSE
        LET model_id == ParserModelsGet(Head(sel), <<None, "">>)[1] IN
        IF ~Falsy(model_id) /\ HasLargeTag(model_id)
        THEN FilterLarge(Tail(sel))
        ELSE <<Head(sel)>> \o FilterLarge(Tail(sel))

Selected(a) ==
    LET chosen == IF a.parsers # <<>> THEN a.parsers ELSE ParserKeys IN
    IF a.regression_only THEN <<>>
    ELSE IF ~a.include_large THEN FilterLarge(chosen)
    ELSE chosen

\* main up to the first loop: the binary check, the report directory, `selected`
MainStart ==
    /\ pc = "main"
    /\ IF ~binary
       THEN /\ pc' = "exit"
            /\ status' = "1"
            /\ UNCHANGED selected
       ELSE /\ pc' = "parser_loop"
            /\ selected' = Selected(args)
            /\ UNCHANGED status
    /\ pi' = 1
    /\ ri' = 1
    /\ UNCHANGED <<input, output, logs, cooled, args, binary, cache, entered, mode, cur, cfgN, results, proc, groups,
                   attempts, waitRes, ci, exc, killLog, kcalls, killed, returned,
                   written>>

\* entering run_parser_tests or run_regression_tests
EnterRun(m, parser, label, model_id, description) ==
    /\ mode' = m
    /\ cur' = [parser |-> parser, label |-> label, model |-> model_id,
               description |-> description]
    /\ entered' = entered \cup {cfgN'}
    /\ pc' = "start"

\* one iteration of `for parser in selected`, up to the call of run_parser_tests
ParserLoop ==
    /\ pc = "parser_loop"
    /\ IF pi > Len(selected)
       THEN /\ pc' = IF args.no_regression THEN "write" ELSE "regression_loop"
            /\ UNCHANGED <<mode, cur, cfgN, entered, results, pi>>
       ELSE
        LET parser   == selected[pi]
            pm       == ParserModelsGet(parser, <<None, "Unknown parser">>)
            model_id == pm[1]
        IN
        /\ cfgN' = cfgN + 1
        /\ IF Falsy(model_id)
           THEN /\ results' = Append(results,
                        [Record(parser, None, "skipped", FALSE,
                                "reason" :> <<pm[2]>>) EXCEPT !.cfg = cfgN', !.mode = "parser"])
                /\ pi' = pi + 1
                /\ UNCHANGED <<pc, mode, cur, entered>>
           ELSE IF model_id \notin cache
           THEN /\ results' = Append(results,
                        [Record(parser, model_id, "skipped", FALSE,
                                "reason" :> <<"Model directory not found">>)
                         EXCEPT !.cfg = cfgN', !.mode = "parser"])
                /\ pi' = pi + 1
                /\ UNCHANGED <<pc, mode, cur, entered>>
           ELSE /\ EnterRun("parser", parser, parser, model_id, "")
                /\ UNCHANGED <<results, pi>>
    /\ UNCHANGED <<input, output, logs, cooled, args, binary, cache, selected, ri, proc, groups, attempts,
                   waitRes, ci, exc, killLog, kcalls, killed, returned, written,
                   status>>

\* one iteration of `for model_id, description, is_large in REGRESSION_MODELS`
RegressionLoop ==
    /\ pc = "regression_loop"
    /\ IF ri > Len(REGRESSION_MODELS)
       THEN /\ pc' = "write"
            /\ UNCHANGED <<mode, cur, cfgN, entered, results, ri>>
       ELSE
        LET rm    == REGRESSION_MODELS[ri]
            label == AutoLabel(rm.model)
        IN
        /\ cfgN' = cfgN + 1
        /\ IF rm.large /\ ~args.include_large
           THEN /\ results' = Append(results,
                        [Record(label, None, "skipped", FALSE,
                                "reason" :> <<"Large model, skipped without --include-large">>)
                         EXCEPT !.cfg = cfgN', !.mode = "regression"])
                /\ ri' = ri + 1
                /\ UNCHANGED <<pc, mode, cur, entered>>
           ELSE IF rm.model \notin cache
           THEN /\ results' = Append(results,
                        [Record(label, rm.model, "skipped", FALSE,
                                "reason" :> <<"Model directory not found">>)
                         EXCEPT !.cfg = cfgN', !.mode = "regression"])
                /\ ri' = ri + 1
                /\ UNCHANGED <<pc, mode, cur, entered>>
           ELSE /\ EnterRun("regression", None, label, rm.model, rm.description)
                /\ UNCHANGED <<results, ri>>
    /\ UNCHANGED <<input, output, logs, cooled, args, binary, cache, selected, pi, proc, groups, attempts,
                   waitRes, ci, exc, killLog, kcalls, killed, returned, written,
                   status>>

\* start_server(model_id, parser, port): the log file is opened, then the
\* process is spawned in a new session; either step can raise OSError
StartOutcomes == {"spawned", "open raises", "Popen raises"}

start_server(outcome, withChild) ==
    /\ logs' = IF outcome = "open raises" THEN logs
               ELSE Append(logs, [path |-> LogPath(cur.parser), cfg |-> cfgN,
                                  open |-> TRUE])
    /\ IF outcome = "spawned"
       THEN /\ proc' = [id |-> Len(groups) + 1, returncode |-> None, log_open |-> TRUE,
                        log_path |-> LogPath(cur.parser)]
            /\ groups' = Append(groups, IF withChild THEN {"lead", "child"} ELSE {"lead"})
            /\ exc' = "none"
       ELSE /\ exc' = "OSError"
            /\ UNCHANGED <<proc, groups>>

\* run_*_tests: proc = None; try: proc = start_server(...)
RunStart ==
    /\ pc = "start"
    /\ \E outcome \in StartOutcomes, withChild \in BOOLEAN :
          start_server(outcome, withChild)
    /\ pc' = IF exc' = "none" THEN "wait" ELSE "finally"
    /\ UNCHANGED <<input, output, cooled, args, binary, cache, entered, mode, selected, pi, ri, cur, cfgN, results,
                   attempts, waitRes, ci, killLog, kcalls, killed, returned, written,
                   status>>

\* the outcomes of one readiness request: HTTP 200, another 2xx status,
\* URLError/OSError (caught), an exception that is neither (http.client's)
PollOutcomes == {"200", "2xx", "URLError", "HTTPException"}

\* with open(proc._log_path) as f: tail = f.read()[-500:]
LogTailOutcomes == {"read", "raises"}

\* one iteration of the loop of wait_for_server(port, proc, timeout), or the
\* code after the loop when the deadline has passed
wait_for_server ==
    \/ \* time.time() >= deadline: the log tail, return False
       /\ attempts >= 1
       /\ \E tail \in LogTailOutcomes :
             waitRes' = IF tail = "read" THEN "false" ELSE "raise"
       /\ UNCHANGED <<proc, attempts>>
    \/ \* time.time() < deadline
       /\ attempts < MaxPolls
       /\ LET h == poll(proc, groups[proc.id]) IN
          /\ proc' = h
          /\ IF h.returncode # None
             THEN /\ \E tail \in LogTailOutcomes :
                        waitRes' = IF tail = "read" THEN "false" ELSE "raise"
                  /\ UNCHANGED attempts
             ELSE \E http \in PollOutcomes :
                    /\ http = "200" => Listening
                    /\ waitRes' = CASE http = "200" -> "true"
                                    [] http = "HTTPException" -> "raise"
                                    [] OTHER -> "pending"
                    /\ attempts' = IF http \in {"2xx", "URLError"}
                                   THEN attempts + 1 ELSE attempts

RunWait ==
    /\ pc = "wait"
    /\ waitRes = "pending"
    /\ wait_for_server
    /\ UNCHANGED <<input, output, logs, cooled, args, binary, cache, entered, pc, mode, selected, pi, ri, cur, cfgN,
                   results, groups, ci, exc, killLog, kcalls, killed, returned,
                   written, status>>

\* the details of a server_start record: the regression run adds the description
StartDetails(key, text) ==
    IF mode = "regression"
    THEN (key :> <<text>>) @@ ("description" :> <<cur.description>>)
    ELSE key :> <<text>>

\* run_*_tests after wait_for_server has returned or raised
RunAfterWait ==
    /\ pc = "wait"
    /\ waitRes # "pending"
    /\ CASE waitRes = "raise" ->
              /\ exc' = "wait_for_server raised"
              /\ pc' = "finally"
              /\ UNCHANGED <<results, ci>>
         [] waitRes = "false" ->
              /\ results' = Append(results,
                    Record(cur.label, cur.model, "server_start", FALSE,
                           StartDetails("error", "Server failed to start within 240s")))
              /\ pc' = "finally"
              /\ UNCHANGED <<exc, ci>>
         [] waitRes = "true" ->
              /\ results' = Append(results,
                    Record(cur.label, cur.model, "server_start", TRUE,
                           StartDetails("message", "Server started successfully")))
              /\ pc' = "cases"
              /\ ci' = 1
              /\ UNCHANGED exc
    /\ UNCHANGED <<input, output, logs, cooled, args, binary, cache, entered, mode, selected, pi, ri, cur, cfgN, proc,
                   groups, attempts, waitRes, killLog, kcalls, killed, returned,
                   written, status>>

\* a streamed reply with a data line, before the sentinel, that is not JSON
\* or has no first choice
BrokenStream(reply) ==
    /\ reply.error = "none"
    /\ \E k \in 1..Len(reply.lines) :
          /\ \/ reply.lines[k].kind = "bad"
             \/ /\ reply.lines[k].kind = "data"
                /\ \/ "choices" \notin DOMAIN reply.lines[k].chunk
                   \/ Len(reply.lines[k].chunk["choices"]) = 0
          /\ \A j \in 1..(k - 1) : reply.lines[j].kind # "done"

\* The record one test case appends for the server's reply: the try body
\* (send_request, evaluate_response, append) or the except handler.
\* transport and broken are ghosts: whether send_request returned a decoded
\* response, and whether the reply was a broken stream.
CaseRecord(case, reply) ==
    LET sent == send_request(reply, case.stream)
        ev   == evaluate_response(sent.result, case.expected)
        base == Record(cur.label, cur.model, case.name, FALSE, EmptyDict)
               @@ ("stream" :> case.stream)
               @@ ("broken" :> (case.stream /\ BrokenStream(reply)))
    IN
    IF sent.exc # "none"
    THEN [base EXCEPT !.details = ("error" :> <<sent.exc>>) @@ ("traceback" :> <<sent.exc>>)]
         @@ ("transport" :> "error")
    ELSE IF ev.exc # "none"
    THEN [base EXCEPT !.details = ("error" :> <<ev.exc>>) @@ ("traceback" :> <<ev.exc>>)]
         @@ ("transport" :> "ok")
    ELSE [base EXCEPT !.passed = ev.passed, !.details = ev.details]
         @@ ("transport" :> "ok")

\* RunCase with the loop left when a test case raises (the bug of a try
\* around the loop instead of inside it)
RunCaseBreakOnError ==
    /\ pc = "cases"
    /\ LET cases == CasesOf(mode) IN
       \E reply \in Replies(cases[ci].stream) :
          LET rec == CaseRecord(cases[ci], reply) IN
          /\ results' = Append(results, rec)
          /\ ci' = ci + 1
          /\ pc' = IF ci = Len(cases) \/ "traceback" \in DOMAIN rec.details
                   THEN "finally" ELSE "cases"
    /\ UNCHANGED <<input, output, logs, cooled, args, binary, cache, entered, mode, selected, pi, ri, cur, cfgN,
                   proc, groups, attempts, waitRes, exc, killLog, kcalls, killed,
                   returned, written, status>>

\* RunCase with the record put at the head of the list (the bug of
\* results.insert(0, ...) written for results.append(...))
RunCaseInsertFirst ==
    /\ pc = "cases"
    /\ LET cases == CasesOf(mode) IN
       /\ \E reply \in Replies(cases[ci].stream) :
             results' = <<CaseRecord(cases[ci], reply)>> \o results
       /\ ci' = ci + 1
       /\ pc' = IF ci = Len(cases) THEN "finally" ELSE "cases"
    /\ UNCHANGED <<input, output, logs, cooled, args, binary, cache, entered, mode,
                   selected, pi, ri, cur, cfgN, proc, groups, attempts, waitRes, exc,
                   killLog, kcalls, killed, returned, written, status>>

\* one iteration of the test-case loop of run_*_tests
RunCase ==
    /\ pc = "cases"
    /\ LET cases == CasesOf(mode) IN
       /\ \E reply \in Replies(cases[ci].stream) :
             results' = Append(results, CaseRecord(cases[ci], reply))
       /\ ci' = ci + 1
       /\ pc' = IF ci = Len(cases) THEN "finally" ELSE "cases"
    /\ UNCHANGED <<input, output, logs, cooled, args, binary, cache, entered, mode, selected, pi, ri, cur, cfgN, proc,
                   groups, attempts, waitRes, exc, killLog, kcalls, killed,
                   returned, written, status>>

\* the log opened for configuration c after kill_server: open only if
\* kill_server left the handle's file open
CloseLogOf(c, stillOpen) ==
    [k \in DOMAIN logs |->
        IF logs[k].cfg = c THEN [logs[k] EXCEPT !.open = stillOpen] ELSE logs[k]]

\* RunKill as if kill_server were called after the try statement instead of
\* in its finally clause: not reached when an exception unwinds or after the
\* early return of a failed start
RunKillAfterTry ==
    /\ pc = "finally"
    /\ IF proc.id # 0 /\ exc = "none" /\ waitRes = "true"
       THEN \E o \in KillOutcomes :
              LET r == kill_server(proc, groups[proc.id], o) IN
              /\ proc' = r.proc
              /\ groups' = [groups EXCEPT ![proc.id] = r.group]
              /\ killed' = killed \cup {proc.id}
              /\ logs' = CloseLogOf(cfgN, r.proc.log_open)
       ELSE UNCHANGED <<proc, groups, killed, logs>>
    /\ pc' = "cooldown"
    /\ UNCHANGED <<input, output, cooled, args, binary, cache, entered, mode, selected, pi, ri, cur, cfgN,
                   results, attempts, waitRes, ci, exc, killLog, kcalls, returned,
                   written, status>>

\* finally: if proc: kill_server(proc)
RunKill ==
    /\ pc = "finally"
    /\ IF proc.id # 0
       THEN \E o \in KillOutcomes :
              LET r == kill_server(proc, groups[proc.id], o) IN
              /\ proc' = r.proc
              /\ groups' = [groups EXCEPT ![proc.id] = r.group]
              /\ killed' = killed \cup {proc.id}
              /\ logs' = CloseLogOf(cfgN, r.proc.log_open)
       ELSE UNCHANGED <<proc, groups, killed, logs>>
    /\ pc' = "cooldown"
    /\ UNCHANGED <<input, output, cooled, args, binary, cache, entered, mode, selected, pi, ri, cur, cfgN, results,
                   attempts, waitRes, ci, exc, killLog, kcalls, returned, written,
                   status>>

\* RunReturn as if time.sleep(5) were the last statement of the try body
\* instead of in the finally clause: skipped by the early return of a failed
\* start and by an exception
RunReturnSleepInTry ==
    /\ pc = "cooldown"
    /\ cooled' = IF exc = "none" /\ waitRes = "true" /\ proc.id # 0
                 THEN cooled \cup {proc.id} ELSE cooled
    /\ returned' = returned \cup (IF proc.id # 0 THEN {proc.id} ELSE {})
    /\ proc' = NoProc
    /\ attempts' = 0
    /\ waitRes' = "pending"
    /\ ci' = 1
    /\ IF exc # "none"
       THEN /\ pc' = "exit"
            /\ status' = "traceback"
            /\ UNCHANGED <<pi, ri>>
       ELSE /\ pc' = IF mode = "parser" THEN "parser_loop" ELSE "regression_loop"
            /\ pi' = IF mode = "parser" THEN pi + 1 ELSE pi
            /\ ri' = IF mode = "regression" THEN ri + 1 ELSE ri
            /\ UNCHANGED status
    /\ UNCHANGED <<input, output, logs, args, binary, cache, entered, mode, selected, cur, cfgN, results, groups,
                   exc, killLog, kcalls, killed, written>>

\* finally: time.sleep(5); then the function returns to the loop of main, or
\* the exception goes on through main, which has no handler
RunReturn ==
    /\ pc = "cooldown"
    /\ cooled' = cooled \cup (IF proc.id # 0 THEN {proc.id} ELSE {})
    /\ returned' = returned \cup (IF proc.id # 0 THEN {proc.id} ELSE {})
    /\ proc' = NoProc
    /\ attempts' = 0
    /\ waitRes' = "pending"
    /\ ci' = 1
    /\ IF exc # "none"
       THEN /\ pc' = "exit"
            /\ status' = "traceback"
            /\ UNCHANGED <<pi, ri>>
       ELSE /\ pc' = IF mode = "parser" THEN "parser_loop" ELSE "regression_loop"
            /\ pi' = IF mode = "parser" THEN pi + 1 ELSE pi
            /\ ri' = IF mode = "regression" THEN ri + 1 ELSE ri
            /\ UNCHANGED status
    /\ UNCHANGED <<input, output, logs, args, binary, cache, entered, mode, selected, cur, cfgN, results, groups,
                   exc, killLog, kcalls, killed, written>>

\* the records counted in the summary: not server_start, not skipped, with a model
Counted(rs) == {k \in 1..Len(rs) : /\ rs[k].test \notin {"server_start", "skipped"}
                                    /\ ~Falsy(rs[k].model)}

\* MainWrite with every record counted in the totals (the bug of the
\* filter on r["test"] left out)
MainWriteCountsEveryRecord ==
    /\ pc = "write"
    /\ written' = [done |-> TRUE, records |-> results]
    /\ status' = IF \A k \in 1..Len(results) : results[k].passed THEN "0" ELSE "1"
    /\ pc' = "exit"
    /\ UNCHANGED <<input, output, logs, cooled, args, binary, cache, entered, mode,
                   selected, pi, ri, cur, cfgN, results, proc, groups, attempts,
                   waitRes, ci, exc, killLog, kcalls, killed, returned>>

\* main after the loops: the JSONL and HTML reports, the summary, sys.exit
MainWrite ==
    /\ pc = "write"
    /\ written' = [done |-> TRUE, records |-> results]
    /\ status' = IF \A k \in Counted(results) : results[k].passed THEN "0" ELSE "1"
    /\ pc' = "exit"
    /\ UNCHANGED <<input, output, logs, cooled, args, binary, cache, entered, mode, selected, pi, ri, cur, cfgN, results,
                   proc, groups, attempts, waitRes, ci, exc, killLog, kcalls, killed,
                   returned>>

\* the operating system: a live process of a spawned group exits by itself
ProcessExits ==
    /\ pc \notin {"main", "exit"}
    /\ \E g \in 1..Len(groups) : \E p \in groups[g] :
          groups' = [groups EXCEPT ![g] = @ \ {p}]
    /\ UNCHANGED <<input, output, logs, cooled, args, binary, cache, entered, pc, mode, selected, pi, ri, cur, cfgN,
                   results, proc, attempts, waitRes, ci, exc, killLog, kcalls,
                   killed, returned, written, status>>

Init ==
    /\ args \in [parsers : ArgParsers, include_large : BOOLEAN,
                 no_regression : BOOLEAN, regression_only : BOOLEAN]
    /\ binary \in BOOLEAN
    /\ cache \in CacheChoices
    /\ Cardinality(cache) > 1 => args.parsers = <<"bogus", "gemma">>
    /\ pc = "main"
    /\ mode = "parser"
    /\ selected = <<>>
    /\ pi = 1
    /\ ri = 1
    /\ cur = [parser |-> None, label |-> "", model |-> None, description |-> ""]
    /\ cfgN = 0
    /\ entered = {}
    /\ results = <<>>
    /\ proc = NoProc
    /\ groups = <<>>
    /\ attempts = 0
    /\ waitRes = "pending"
    /\ ci = 1
    /\ exc = "none"
    /\ killLog = NoKill
    /\ kcalls = 0
    /\ killed = {}
    /\ returned = {}
    /\ written = NotWritten
    /\ status = "running"
    /\ cooled = {}
    /\ input = <<>>
    /\ output = <<>>
    /\ logs = <<>>

Next ==
    \/ MainStart
    \/ ParserLoop
    \/ RegressionLoop
    \/ RunStart
    \/ RunWait
    \/ RunAfterWait
    \/ RunCase
    \/ RunKill
    \/ RunReturn
    \/ MainWrite
    \/ ProcessExits

Spec == Init /\ [][Next]_vars

----------------------------------------------------------------------------
(* kill_server on its own: one handle, any state start_server and the      *)
(* operating system can have left it in, kill_server applied repeatedly    *)

KillCall ==
    /\ pc = "kill_server"
    /\ kcalls < MaxKillCalls
    /\ \E o \in KillOutcomes :
          LET r == kill_server(proc, groups[proc.id], o) IN
          /\ proc' = r.proc
          /\ groups' = [groups EXCEPT ![proc.id] = r.group]
          /\ killLog' = KillRecord(proc, groups[proc.id], r)
    /\ kcalls' = kcalls + 1
    /\ killed' = killed \cup {proc.id}
    /\ UNCHANGED <<input, output, logs, cooled, args, binary, cache, entered, pc, mode, selected, pi, ri, cur,
                   cfgN, results, attempts, waitRes, ci, exc, returned, written,
                   status>>

InitKill ==
    /\ args = [parsers |-> <<>>, include_large |-> FALSE, no_regression |-> FALSE,
               regression_only |-> FALSE]
    /\ binary = TRUE
    /\ cache = {}
    /\ pc = "kill_server"
    /\ mode = "parser"
    /\ selected = <<>>
    /\ pi = 1
    /\ ri = 1
    /\ cur = [parser |-> "hermes", label |-> "hermes", model |-> Qwen30B,
              description |-> ""]
    /\ cfgN = 1
    /\ entered = {1}
    /\ results = <<>>
    /\ \E g \in SUBSET {"lead", "child"}, rc \in {None, "exited"} :
          /\ rc = "exited" => "lead" \notin g
          /\ groups = <<g>>
          /\ proc = [id |-> 1, returncode |-> rc, log_open |-> TRUE,
                     log_path |-> LogPath("hermes")]
    /\ attempts = 0
    /\ waitRes = "pending"
    /\ ci = 1
    /\ exc = "none"
    /\ killLog = NoKill
    /\ kcalls = 0
    /\ killed = {}
    /\ returned = {}
    /\ written = NotWritten
    /\ status = "running"
    /\ cooled = {}
    /\ input = <<>>
    /\ output = <<>>
    /\ logs = <<>>

NextKill ==
    \/ KillCall
    \/ ProcessExits

SpecKill == InitKill /\ [][NextKill]_vars

----------------------------------------------------------------------------
(* send_request on a streamed answer, line by line: input is the sequence  *)
(* of lines read so far, output.st the state of the loop after them and    *)
(* output.ret what send_request returns or raises once the stream is over  *)

\* the variables the streaming and the evaluation leave alone
harness == <<args, binary, cache, mode, selected, pi, ri, cur, cfgN, entered, results,
             proc, groups, attempts, waitRes, ci, exc, killLog, kcalls, killed,
             returned, written, status, cooled, logs>>

\* lines of an event stream: one tool-call entry with id, name and argument text
NameLine(idx, id, name, a) ==
    DataLine("tool_calls" :> PyList(<< ("index" :> idx) @@ ("id" :> id)
                @@ ("function" :> (("name" :> name) @@ ("arguments" :> PyStr(a)))) >>),
             None)

\* one tool-call entry with argument text only
ArgLine(idx, a) ==
    DataLine("tool_calls" :> PyList(<< ("index" :> idx)
                @@ ("function" :> ("arguments" :> PyStr(a))) >>), None)

\* argument text for two indices in one delta
TwoArgsLine(i, a, j, b) ==
    DataLine("tool_calls" :> PyList(<<
                ("index" :> i) @@ ("function" :> ("arguments" :> PyStr(a))),
                ("index" :> j) @@ ("function" :> ("arguments" :> PyStr(b))) >>), None)

\* a content delta
ContentLine(c, finish) == DataLine("content" :> PyStr(c), finish)

\* one tool-call entry whose id, name and arguments are null
NullEntryLine(idx) ==
    DataLine("tool_calls" :> PyList(<< ("index" :> idx) @@ ("id" :> None)
                @@ ("function" :> (("name" :> None) @@ ("arguments" :> PyNone))) >>),
             None)

\* a line without the "data: " prefix (a comment, an event name)
OtherLine == [kind |-> "other", chunk |-> EmptyDict]

\* what the server may send as the next line of the stream
StreamLines ==
    { NameLine(0, "call_1", "get_weather", <<"{">>),
      NameLine(0, "call_2", "calculate", <<>>),
      NameLine(0, "", "", <<"{", "}">>),
      NameLine(1, "call_3", "calculate", <<"{", "}">>),
      ArgLine(0, <<"}">>),
      TwoArgsLine(1, <<"[">>, 0, <<"]">>),
      ContentLine(<<"h", "i">>, None),
      ContentLine(<<"!">>, "stop"),
      NullEntryLine(0),
      DoneLine,
      BlankLine,
      OtherLine,
      [kind |-> "bad", chunk |-> EmptyDict],
      [kind |-> "data", chunk |-> "choices" :> <<>>] }

NoReturn == [exc |-> "pending", result |-> EmptyDict]

\* for raw_line in resp: one iteration of the loop
StreamLine ==
    /\ pc = "stream"
    /\ Len(input) < MaxLines
    /\ ~output.st.done
    /\ output.st.exc = "none"
    /\ \E line \in StreamLines :
          /\ input' = Append(input, line)
          /\ output' = [output EXCEPT !.st = FoldLine(output.st, line)]
    /\ UNCHANGED <<pc, harness>>

\* the stream is over ([DONE], connection closed) or a line raised:
\* send_request builds the synthetic choices and returns, or raises
StreamEnd ==
    /\ pc = "stream"
    /\ output' = [output EXCEPT !.ret = send_request(StreamReply(input), TRUE)]
    /\ pc' = "sent"
    /\ UNCHANGED <<input, harness>>

InitStream ==
    /\ args = [parsers |-> <<>>, include_large |-> FALSE, no_regression |-> FALSE,
               regression_only |-> FALSE]
    /\ binary = TRUE
    /\ cache = {}
    /\ pc = "stream"
    /\ mode = "parser"
    /\ selected = <<>>
    /\ pi = 1
    /\ ri = 1
    /\ cur = [parser |-> "hermes", label |-> "hermes", model |-> Qwen30B,
              description |-> ""]
    /\ cfgN = 1
    /\ entered = {1}
    /\ results = <<>>
    /\ proc = NoProc
    /\ groups = <<>>
    /\ attempts = 0
    /\ waitRes = "true"
    /\ ci = 1
    /\ exc = "none"
    /\ killLog = NoKill
    /\ kcalls = 0
    /\ killed = {}
    /\ returned = {}
    /\ written = NotWritten
    /\ status = "running"
    /\ cooled = {}
    /\ logs = <<>>
    /\ input = <<>>
    /\ output = [st |-> StreamInit, ret |-> NoReturn]

NextStream ==
    \/ StreamLine
    \/ StreamEnd

SpecStream == InitStream /\ [][NextStream]_vars

----------------------------------------------------------------------------
(* evaluate_response on its own: input is its pair of arguments, output    *)
(* the sequence of what successive calls on that pair returned or raised   *)

\* a text of n characters c
Repeat(c, n) == [i \in 1..n |-> c]

\* argument texts: an object with the key of the other tool is ArgsExpr or
\* ArgsCity; BadJson is {"expression":1*2}; ArrayText is [1]; LongBad and
\* LongArray are longer than args_str[:500] keeps, the first invalid JSON,
\* the second a valid array; LongContent is longer than content[:200] keeps
BadJson     == <<"{", Quote>> \o EXPRESSION \o <<Quote, ":", "1", "*", "2", "}">>
ArrayText   == <<"[", "1", "]">>
LongBad     == <<"1">> \o Repeat("x", RawLen)
LongArray   == <<"[">> \o Repeat(" ", RawLen) \o <<"]">>
LongContent == Repeat("a", SnippetLen + 1)
Sunny       == <<"I", "t", " ", "i", "s", " ", "s", "u", "n", "n", "y", ".">>

\* the tool calls a response may carry first, and after the first
FirstCalls ==
    { ToolCall("call_1", n, a) :
        n \in {"get_weather", "calculate"},
        a \in {PyStr(ArgsCity), PyStr(ArgsExpr), PyStr(BadJson), PyStr(ArrayText),
               PyStr(LongBad), PyStr(LongArray), PyDict(CITY :> PyStr(<<"T">>))} }
LaterCalls ==
    { ToolCall("call_2", n, a) :
        n \in {"get_weather", "calculate"}, a \in {PyStr(ArgsCity), PyStr(BadJson)} }

\* the `choices` of the responses send_request may return
EvalChoices ==
    { <<>>, << Choice(PyNone, "stop") >> }
    \cup { << Choice(PyDict(Message(c, t)), "stop") >> :
             c \in {PyNone, PyStr(Sunny), PyStr(LongContent)},
             t \in {PyNone, PyList(<<>>)} }
    \cup { << Choice(PyDict(Message(PyNone, PyList(<<f>>))), "tool_calls") >> :
             f \in FirstCalls }
    \cup { << Choice(PyDict(Message(PyNone, PyList(<<f, l>>))), "tool_calls") >> :
             f \in FirstCalls, l \in LaterCalls }

\* evaluate_response leaving its argument without its first tool call (the
\* bug of tool_calls.pop(0) written for tool_calls[0])
EvaluateConsuming ==
    /\ pc = "evaluate"
    /\ Len(output) < MaxEvalCalls
    /\ output' = Append(output, evaluate_response(input.result, input.expected))
    /\ LET ch == input.result.choices IN
       IF Len(ch) > 0 /\ ch[1]["message"].t = "dict"
          /\ ch[1]["message"].v["tool_calls"].t = "list"
          /\ Len(ch[1]["message"].v["tool_calls"].v) > 0
       THEN input' = [input EXCEPT !.result.choices =
                        << [ch[1] EXCEPT !["message"].v["tool_calls"].v = Tail(@)] >>]
       ELSE input' = input
    /\ UNCHANGED <<pc, harness>>

\* evaluate_response checking the last tool call of the response (the bug
\* of tool_calls[-1] written for tool_calls[0])
EvaluateLastCall ==
    /\ pc = "evaluate"
    /\ Len(output) < MaxEvalCalls
    /\ LET ch == input.result.choices IN
       IF Len(ch) > 0 /\ ch[1]["message"].t = "dict"
          /\ ch[1]["message"].v["tool_calls"].t = "list"
          /\ Len(ch[1]["message"].v["tool_calls"].v) > 1
       THEN LET tcs == ch[1]["message"].v["tool_calls"].v
                rev == [k \in 1..Len(tcs) |-> tcs[Len(tcs) + 1 - k]]
                r   == evaluate_response(
                          [input.result EXCEPT !.choices =
                             << [ch[1] EXCEPT !["message"].v["tool_calls"].v = rev] >>],
                          input.expected)
            IN output' = Append(output, r)
       ELSE output' = Append(output, evaluate_response(input.result, input.expected))
    /\ UNCHANGED <<pc, input, harness>>

\* evaluate_response without the check of the required argument key
EvaluateMissingKeyPasses ==
    /\ pc = "evaluate"
    /\ Len(output) < MaxEvalCalls
    /\ LET r == evaluate_response(input.result, input.expected) IN
       output' = Append(output,
                    IF r.exc = "none" /\ ~r.passed /\ "arguments" \in DOMAIN r.details
                    THEN [r EXCEPT !.passed = TRUE] ELSE r)
    /\ UNCHANGED <<pc, input, harness>>

\* passed, details = evaluate_response(result, expected_tool)
Evaluate ==
    /\ pc = "evaluate"
    /\ Len(output) < MaxEvalCalls
    /\ output' = Append(output, evaluate_response(input.result, input.expected))
    /\ UNCHANGED <<pc, input, harness>>

InitEval ==
    /\ args = [parsers |-> <<>>, include_large |-> FALSE, no_regression |-> FALSE,
               regression_only |-> FALSE]
    /\ binary = TRUE
    /\ cache = {}
    /\ pc = "evaluate"
    /\ mode = "parser"
    /\ selected = <<>>
    /\ pi = 1
    /\ ri = 1
    /\ cur = [parser |-> "hermes", label |-> "hermes", model |-> Qwen30B,
              description |-> ""]
    /\ cfgN = 1
    /\ entered = {1}
    /\ results = <<>>
    /\ proc = NoProc
    /\ groups = <<>>
    /\ attempts = 0
    /\ waitRes = "true"
    /\ ci = 1
    /\ exc = "none"
    /\ killLog = NoKill
    /\ kcalls = 0
    /\ killed = {}
    /\ returned = {}
    /\ written = NotWritten
    /\ status = "running"
    /\ cooled = {}
    /\ logs = <<>>
    /\ \E ch \in EvalChoices, e \in {"get_weather", "calculate", None} :
          input = [result |-> [choices |-> ch, usage |-> EmptyDict], expected |-> e]
    /\ output = <<>>

NextEval == Evaluate

SpecEval == InitEval /\ [][NextEval]_vars

----------------------------------------------------------------------------
(* Properties *)

Range(f) == {f[x] : x \in DOMAIN f}

\* the records of configuration c
ServerStarts(c) ==
    {k \in 1..Len(results) : results[k].cfg = c /\ results[k].test = "server_start"}
CaseIdx(c) ==
    {k \in 1..Len(results) : /\ results[k].cfg = c
                             /\ results[k].test \notin {"server_start", "skipped"}}
IsCaseOf(c, r) == r.cfg = c /\ r.test \notin {"server_start", "skipped"}
CaseSeq(c) == LET Test(r) == IsCaseOf(c, r) IN SelectSeq(results, Test)

\* C1: after a run, every configuration for which a run function was entered
\* has exactly one server_start record, and has test-case records only if
\* that record passed, all of them after it.
C1_OneServerStartPerEnteredConfig ==
    pc = "exit" =>
        \A c \in entered :
            /\ Cardinality(ServerStarts(c)) = 1
            /\ CaseIdx(c) # {} =>
                  \A k \in ServerStarts(c) :
                     results[k].passed /\ \A j \in CaseIdx(c) : j > k

\* the configurations of the two plans, before any filtering
Chosen ==
    IF args.regression_only THEN <<>>
    ELSE IF args.parsers # <<>> THEN args.parsers ELSE ParserKeys
Planned == IF args.no_regression THEN <<>> ELSE REGRESSION_MODELS

ParserIneligible(p) ==
    LET m == ParserModelsGet(p, <<None, "">>)[1] IN
    Falsy(m) \/ m \notin cache \/ (HasLargeTag(m) /\ ~args.include_large)
RegressionIneligible(rm) ==
    (rm.large /\ ~args.include_large) \/ rm.model \notin cache

OnlyOneSkipped(label, m) ==
    LET recs == {k \in 1..Len(results) :
                    results[k].parser = label /\ results[k].mode = m}
    IN /\ Cardinality(recs) = 1
       /\ \A k \in recs : results[k].test = "skipped"

\* C2: in a run that went through both plans, every configuration that is
\* ineligible before any spawn (unknown parser, model directory absent, large
\* model without --include-large) has exactly one record, a "skipped" one.
C2_EveryIneligibleConfigIsRecordedSkipped ==
    (pc = "exit" /\ written.done) =>
        /\ \A i \in 1..Len(Chosen) :
              ParserIneligible(Chosen[i]) => OnlyOneSkipped(Chosen[i], "parser")
        /\ \A i \in 1..Len(Planned) :
              RegressionIneligible(Planned[i]) =>
                  OnlyOneSkipped(AutoLabel(Planned[i].model), "regression")

\* C3: the run ends only by the abort for an absent binary or by writing
\* every collected result after all configurations were visited.
C3_OnlyAbsentBinaryAbortsTheRun ==
    pc = "exit" =>
        \/ /\ ~binary
           /\ results = <<>>
        \/ /\ written.done
           /\ written.records = results
           /\ status \in {"0", "1"}

\* C4: a handle start_server returned has had kill_server invoked on it by
\* the time its run function has returned or unwound, on every exit path.
C4_KillServerBeforeReturn ==
    /\ returned \subseteq killed
    /\ \A h \in 1..Len(groups) : proc.id # h => h \in returned

\* C4 witness: wait_for_server raised, the exception left run_*_tests, and
\* the handle had been killed
C4_Witness ==
    /\ status = "traceback"
    /\ returned # {}
    /\ returned \subseteq killed

\* C5: at every point of a run at most one spawned process group holds a
\* live process.
C5_AtMostOneServerAlive == Cardinality(LiveGroups) <= 1

\* the configurations whose server became healthy
HealthyCfgs ==
    {c \in 1..cfgN : \E k \in ServerStarts(c) : results[k].passed}
ModeOf(c) == results[CHOOSE k \in ServerStarts(c) : TRUE].mode
RunOver(c) == c < cfgN \/ pc \notin {"start", "wait", "cases"}

\* C6: in a configuration whose server became healthy the declared test
\* cases each yield exactly one record, in declared order; a request that
\* raised yields a failing record with the exception text and traceback; and
\* no exception is pending, so the run function returns to the loop of main.
C6_OneRecordPerTestCase ==
    \A c \in HealthyCfgs :
        LET cs   == CaseSeq(c)
            decl == CasesOf(ModeOf(c))
        IN
        /\ Len(cs) <= Len(decl)
        /\ \A j \in 1..Len(cs) :
              /\ cs[j].test = decl[j].name
              /\ cs[j].stream = decl[j].stream
              /\ "traceback" \in DOMAIN cs[j].details =>
                    ~cs[j].passed /\ "error" \in DOMAIN cs[j].details
              /\ cs[j].transport = "error" => "traceback" \in DOMAIN cs[j].details
        /\ RunOver(c) => Len(cs) = Len(decl)
        /\ (c = cfgN /\ pc \in {"cases", "finally", "cooldown"}) => exc = "none"

\* C6 witness: a healthy configuration whose first request raised and whose
\* later test cases still ran, one of them passing
C6_Witness ==
    \E c \in HealthyCfgs :
        LET cs == CaseSeq(c) IN
        /\ RunOver(c)
        /\ Len(cs) = Len(CasesOf(ModeOf(c)))
        /\ cs[1].transport = "error"
        /\ cs[2].passed

\* C7: a decoded response that fails the expectation is recorded with the
\* evaluator's structured reason, never with exception text and traceback;
\* a transport failure is never recorded with an evaluator reason.
C7_EvaluationNeverRecordedAsException ==
    \A k \in 1..Len(results) :
        "transport" \in DOMAIN results[k] =>
            /\ (results[k].transport = "ok" /\ ~results[k].passed) =>
                  "traceback" \notin DOMAIN results[k].details
            /\ results[k].transport = "error" =>
                  "traceback" \in DOMAIN results[k].details

\* the events of a kill_server call that the phase outcomes account for
EventsFor(graceful, forced) ==
    (IF graceful \in {"exited", "timeout"} THEN <<"SIGTERM", "wait(10)">> ELSE <<>>)
    \o (IF forced \in {"exited", "timeout"} THEN <<"SIGKILL", "wait(5)">> ELSE <<>>)

\* C8 as stated: on a live server SIGTERM is sent first and followed by a
\* wait; SIGKILL is sent exactly when the graceful phase raised or timed
\* out, and is followed by a wait; SIGKILL never comes before SIGTERM.
C8_SigkillSentIffGracefulFailed ==
    (kcalls >= 1 /\ killLog.live) =>
        LET ev == killLog.events IN
        /\ Len(ev) >= 2 /\ ev[1] = "SIGTERM" /\ ev[2] = "wait(10)"
        /\ ("SIGKILL" \in Range(ev)) <=> (killLog.graceful \in {"raised", "timeout"})
        /\ \A i \in 1..Len(ev) :
              ev[i] = "SIGKILL" => (i < Len(ev) /\ ev[i + 1] = "wait(5)")
        /\ \A i, j \in 1..Len(ev) :
              (ev[i] = "SIGKILL" /\ ev[j] = "SIGTERM") => j < i

\* C8 amended: on a live server the graceful phase is attempted first and the
\* forced phase is attempted exactly when the graceful phase raised or timed
\* out; a phase whose getpgid/killpg raises sends no signal; a signal that is
\* sent is followed by its bounded wait, SIGTERM (if sent) before SIGKILL;
\* on a server that has already exited no signal is sent.
C8_ForcedPhaseIffGracefulFailed ==
    kcalls >= 1 =>
        /\ killLog.live =>
              /\ killLog.graceful \in {"exited", "timeout", "raised"}
              /\ (killLog.forced # "skipped")
                    <=> (killLog.graceful \in {"raised", "timeout"})
              /\ killLog.events = EventsFor(killLog.graceful, killLog.forced)
        /\ ~killLog.live => killLog.events = <<>>

\* C8 witness: the graceful wait timed out and SIGKILL followed
C8_Witness ==
    /\ kcalls >= 1
    /\ killLog.live
    /\ killLog.graceful = "timeout"
    /\ killLog.events = <<"SIGTERM", "wait(10)", "SIGKILL", "wait(5)">>

\* C9: when kill_server has returned the handle's log file is closed.
C9_LogClosedAfterKill == kcalls >= 1 => (~killLog.after.log_open /\ ~proc.log_open)

\* C9 witness: both phases raised and the log, open before, is closed
C9_Witness ==
    /\ kcalls = 1
    /\ killLog.before.log_open
    /\ killLog.live
    /\ killLog.graceful = "raised"
    /\ killLog.forced = "raised"
    /\ ~proc.log_open

C11_CoolDownAfterEveryStop ==
    /\ pc # "cooldown" => killed \subseteq cooled
    /\ returned \subseteq cooled

\* C11 witness: a second server was started after the first one, whose
\* health probe had failed, was stopped and the cool-down had elapsed
C11_Witness ==
    /\ Len(groups) >= 2
    /\ pc = "wait"
    /\ 1 \in killed
    /\ 1 \in cooled
    /\ \E k \in 1..Len(results) : results[k].test = "server_start" /\ ~results[k].passed

\* C12: wait_for_server ends with True or False and nothing else; True only
\* while the process has not been observed as exited; False, with no further
\* poll, once the process has been observed as exited.
C12_WaitReturnsTrueOrFalse ==
    pc = "wait" =>
        /\ waitRes \in {"pending", "true", "false"}
        /\ waitRes = "true" => proc.returncode = None
        /\ proc.returncode # None => waitRes = "false"

\* C13: wait_for_server raises on no path: neither when the log tail cannot
\* be read after the process exited or the deadline elapsed, nor when a poll
\* fails with an error that is not a URL or connection error.
C13_WaitForServerNeverRaises == waitRes # "raise"

----------------------------------------------------------------------------
(* Properties of the stream reduction (SpecStream) *)

\* the delta of a line, if it is a data line with a choice
DeltaOf(line) ==
    IF line.kind = "data" /\ "choices" \in DOMAIN line.chunk
       /\ Len(line.chunk["choices"]) > 0
    THEN Get(line.chunk["choices"][1], "delta", EmptyDict)
    ELSE EmptyDict

\* the tool-call entries of the lines, in arrival order
RECURSIVE EntriesOf(_)
EntriesOf(lines) ==
    IF lines = <<>> THEN <<>>
    ELSE LET tcs == Get(DeltaOf(Head(lines)), "tool_calls", PyNone) IN
         (IF tcs.t = "list" THEN tcs.v ELSE <<>>) \o EntriesOf(Tail(lines))

\* the content deltas of the lines, in arrival order
RECURSIVE ContentDeltas(_)
ContentDeltas(lines) ==
    IF lines = <<>> THEN <<>>
    ELSE LET c == Get(DeltaOf(Head(lines)), "content", PyNone) IN
         (IF c.t = "str" THEN <<c.v>> ELSE <<>>) \o ContentDeltas(Tail(lines))

\* the argument deltas received for index idx, in arrival order
ArgDeltas(lines, idx) ==
    LET Has(e) == /\ e["index"] = idx
                  /\ "function" \in DOMAIN e
                  /\ "arguments" \in DOMAIN e["function"]
        es == SelectSeq(EntriesOf(lines), Has)
    IN [k \in 1..Len(es) |-> es[k]["function"]["arguments"].v]

\* the names, and the ids, that the deltas for index idx specify
NameDeltas(lines, idx) ==
    LET Has(e) == /\ e["index"] = idx
                  /\ "function" \in DOMAIN e
                  /\ ~Falsy(Get(e["function"], "name", None))
        es == SelectSeq(EntriesOf(lines), Has)
    IN [k \in 1..Len(es) |-> es[k]["function"]["name"]]
IdDeltas(lines, idx) ==
    LET Has(e) == e["index"] = idx /\ ~Falsy(Get(e, "id", None))
        es == SelectSeq(EntriesOf(lines), Has)
    IN [k \in 1..Len(es) |-> es[k]["id"]]

\* the indices that occur in the lines, ascending
IndicesOf(lines) ==
    LET es == EntriesOf(lines) IN SortedKeys({es[k]["index"] : k \in 1..Len(es)})

\* send_request has returned a response for the stream read
Sent == pc = "sent" /\ output.ret.exc = "none"

\* the message of the response, and its finalized tool calls as a sequence
SentMessage == output.ret.result.choices[1]["message"].v
SentCalls ==
    LET tcs == SentMessage["tool_calls"] IN IF tcs.t = "list" THEN tcs.v ELSE <<>>

\* ways of cutting a text into deltas: whole, in two at any point, by character
Chunkings(text) ==
    { <<text>>, [i \in 1..Len(text) |-> <<text[i]>>] }
    \cup { <<SubSeq(text, 1, k), SubSeq(text, k + 1, Len(text))>> : k \in 0..Len(text) }

\* the argument text send_request finalizes for index idx when the text
\* arrives as the deltas `chunks`
ArgsFinalized(idx, chunks) ==
    LET lines == [k \in 1..Len(chunks) |-> ArgLine(idx, chunks[k])]
        r     == send_request(StreamReply(lines), TRUE)
        tcs   == r.result.choices[1]["message"].v["tool_calls"]
    IN IF tcs.t = "list" THEN tcs.v[1]["function"]["arguments"] ELSE PyStr(<<>>)

\* C14: in the response of a streamed request the finalized tool calls are
\* those of the indices received, ascending, and the arguments of each are
\* the concatenation, in arrival order, of the argument deltas received for
\* its index; the same text cut into deltas in any other way finalizes to
\* the same arguments.
C14_ArgumentsAreConcatenatedDeltas ==
    Sent =>
        LET idxs == IndicesOf(input) IN
        /\ Len(SentCalls) = Len(idxs)
        /\ \A k \in 1..Len(idxs) :
              LET text == Join(ArgDeltas(input, idxs[k])) IN
              /\ SentCalls[k]["function"]["arguments"] = PyStr(text)
              /\ \A c \in Chunkings(text) : ArgsFinalized(idxs[k], c) = PyStr(text)

\* C14 witness: index 0 received three argument deltas, interleaved with a
\* delta for index 1, and its arguments are their concatenation
C14_Witness ==
    /\ Sent
    /\ Len(ArgDeltas(input, 0)) = 3
    /\ Len(ArgDeltas(input, 1)) >= 1
    /\ SentCalls[1]["function"]["arguments"] = PyStr(<<"{", "]", "}">>)

\* C15: when deltas specify a name for an index, the finalized name of that
\* index is the name of the last of them, whatever argument deltas come
\* between or after them; the same for the id.
C15_LastNameAndIdWin ==
    Sent =>
        LET idxs == IndicesOf(input) IN
        \A k \in 1..Len(idxs) :
            LET names == NameDeltas(input, idxs[k])
                ids   == IdDeltas(input, idxs[k])
            IN
            /\ Len(names) >= 1 => SentCalls[k]["function"]["name"] = names[Len(names)]
            /\ Len(ids) >= 1 => SentCalls[k]["id"] = ids[Len(ids)]

\* C15 witness: two deltas named index 0 differently, argument text arrived
\* between and after them, and the finalized name and id are the second's
C15_Witness ==
    /\ Sent
    /\ NameDeltas(input, 0) = <<"get_weather", "calculate">>
    /\ input[Len(input)] = ArgLine(0, <<"}">>)
    /\ Len(ArgDeltas(input, 0)) = 4
    /\ SentCalls[1]["function"]["name"] = "calculate"
    /\ SentCalls[1]["id"] = "call_2"

\* C16: the response of a stream without tool-call deltas has an empty
\* list of tool calls, not null, and its content is the concatenation of
\* the content deltas in arrival order.
C16_NoToolCallDeltasGiveEmptyList ==
    (Sent /\ EntriesOf(input) = <<>>) =>
        /\ SentMessage["tool_calls"] = PyList(<<>>)
        /\ SentMessage["content"] = PyStr(Join(ContentDeltas(input)))

----------------------------------------------------------------------------
(* Properties of the evaluation (SpecEval) *)

\* the response under evaluation: whether it has a choice, the message of
\* its first choice, that message's tool calls, content and finish reason
EvHasChoice == Len(input.result.choices) > 0
EvMessage   == Get(input.result.choices[1], "message", PyDict(EmptyDict))
EvFinish    == Get(input.result.choices[1], "finish_reason", "")
EvCalls ==
    IF EvHasChoice /\ EvMessage.t = "dict"
    THEN LET t == Get(EvMessage.v, "tool_calls", PyNone) IN
         IF t.t = "list" THEN t.v ELSE <<>>
    ELSE <<>>
EvContent ==
    IF EvHasChoice /\ EvMessage.t = "dict"
    THEN LET c == Get(EvMessage.v, "content", PyNone) IN
         IF c.t = "str" THEN c.v ELSE <<>>
    ELSE <<>>
EvFirstName == EvCalls[1]["function"]["name"]
EvFirstArgs == EvCalls[1]["function"]["arguments"]

\* the argument key a tool requires
RequiredKey(tool) == IF tool = "get_weather" THEN CITY ELSE EXPRESSION

\* the cases in which the response meets the expectation
ShouldPass ==
    /\ EvHasChoice
    /\ EvMessage.t = "dict"
    /\ IF input.expected # None
       THEN /\ Len(EvCalls) > 0
            /\ EvFirstName = input.expected
            /\ EvFirstArgs.t = "str"
            /\ LET l == JsonLoads(EvFirstArgs) IN
               /\ l.exc = "none"
               /\ l.val.t = "dict"
               /\ RequiredKey(input.expected) \in DOMAIN l.val.v
       ELSE Len(EvCalls) = 0

FirstFailure ==
    IF ~EvHasChoice THEN "No choices in response"
    ELSE IF Len(EvCalls) = 0 THEN "Expected tool_calls but got none"
    ELSE IF EvFirstName # input.expected THEN "Expected tool"
    ELSE IF JsonLoads(EvFirstArgs).exc # "none" THEN "Invalid JSON arguments"
    ELSE IF JsonLoads(EvFirstArgs).val.t # "dict" THEN "Arguments not a dict"
    ELSE IF input.expected = "get_weather" THEN "Missing 'city' key in arguments"
    ELSE "Missing 'expression' key in arguments"

\* C18: when a tool is expected and the response fails, the error reported
\* is that of the first failing rule (no choices; no tool calls; name of the
\* first call; arguments not JSON or not an object; required key missing)
\* and the details capture what the rule says: finish reason and content
\* snippet; the full list of tool calls; the raw argument text, truncated;
\* the parsed object.
C18_FirstFailingRuleReported ==
    \A k \in 1..Len(output) :
        LET r == output[k] IN
        (input.expected # None /\ r.exc = "none" /\ ~r.passed) =>
            /\ r.details["error"][1] = FirstFailure
            /\ FirstFailure = "Expected tool_calls but got none" =>
                  /\ r.details["finish_reason"] = EvFinish
                  /\ r.details["content_snippet"] = Prefix(EvContent, SnippetLen)
            /\ FirstFailure = "Expected tool" => r.details["tool_calls"] = EvCalls
            /\ FirstFailure \in {"Invalid JSON arguments", "Arguments not a dict"} =>
                  r.details["arguments_raw"] = Prefix(EvFirstArgs.v, RawLen)
            /\ FirstFailure \in {"Missing 'city' key in arguments",
                                  "Missing 'expression' key in arguments"} =>
                  r.details["arguments"] = JsonLoads(EvFirstArgs).val.v

\* a response cut down to its first tool call
FirstOnly(result) ==
    IF Len(EvCalls) > 1
    THEN [result EXCEPT !.choices =
            << [result.choices[1] EXCEPT
                  !["message"].v["tool_calls"].v = <<EvCalls[1]>>] >>]
    ELSE result

\* a details dict without the keys K
Without(d, K) == [x \in DOMAIN d \ K |-> d[x]]

\* C19 as stated: the outcome of evaluate_response is that of the response
\* cut down to its first tool call, and later calls change nothing of the
\* details but the reported number of calls.
C19_LaterCallsAffectOnlyCount ==
    \A k \in 1..Len(output) :
        LET r  == output[k]
            r1 == evaluate_response(FirstOnly(input.result), input.expected)
        IN
        /\ r.exc = r1.exc
        /\ r.passed = r1.passed
        /\ Without(r.details, {"num_tool_calls"}) = Without(r1.details, {"num_tool_calls"})

\* C19 amended: the verdict (and an exception, if one is raised) is that of
\* the response cut down to its first tool call; later calls show only in
\* the reported number of calls of a pass and in the list of tool calls that
\* a failure for a wrong name or an unexpected call captures in full.
C19_VerdictDependsOnFirstCallOnly ==
    \A k \in 1..Len(output) :
        LET r  == output[k]
            r1 == evaluate_response(FirstOnly(input.result), input.expected)
        IN
        /\ r.exc = r1.exc
        /\ r.passed = r1.passed
        /\ Without(r.details, {"num_tool_calls", "tool_calls"})
              = Without(r1.details, {"num_tool_calls", "tool_calls"})
        /\ DOMAIN r.details = DOMAIN r1.details
        /\ "num_tool_calls" \in DOMAIN r.details =>
              r.details["num_tool_calls"] = Len(EvCalls)
        /\ "tool_calls" \in DOMAIN r.details => r.details["tool_calls"] = EvCalls

\* C19 witness: calculate expected, the first call is a calculate call with
\* an expression, the second a get_weather call with invalid arguments: pass
C19_Witness ==
    /\ Len(output) >= 1
    /\ input.expected = "calculate"
    /\ Len(EvCalls) = 2
    /\ EvFirstName = "calculate"
    /\ EvCalls[2]["function"]["name"] = "get_weather"
    /\ EvCalls[2]["function"]["arguments"] = PyStr(BadJson)
    /\ output[1].passed
    /\ output[1].details["num_tool_calls"] = 2

----------------------------------------------------------------------------
(* Properties of the server logs (Spec) *)

\* C26: the log file opened for one configuration is never opened for
\* writing again by the server start of a later configuration of the run.
C26_EachConfigurationHasItsOwnLog ==
    \A i, j \in 1..Len(logs) : i < j => logs[i].path # logs[j].path

\* C27: outside the run functions no log file handle that start_server
\* opened is still open.
C27_NoLogHandleOpenAfterRun ==
    pc \in {"parser_loop", "regression_loop", "write", "exit"} =>
        \A k \in 1..Len(logs) : ~logs[k].open

----------------------------------------------------------------------------
(* Properties of the summary, of the order of the records and of broken    *)
(* streams (Spec)                                                          *)

\* the records that a test case appended (they alone carry the stream flag)
IsCaseRecord(r) == "stream" \in DOMAIN r

\* C22: once the summary is computed, the exit status is 0 exactly when
\* every test-case record passed: skipped and server_start records are not
\* counted, so a run with no test-case record exits 0; and the harness exits
\* 0 in no other way.
C22_ExitStatusCountsTestCasesOnly ==
    pc = "exit" =>
        /\ written.done =>
              (status = "0" <=>
                 \A k \in 1..Len(results) :
                    IsCaseRecord(results[k]) => results[k].passed)
        /\ status = "0" => written.done

\* C22 witness: a run that ended with a skipped record, a failed server
\* start and no test-case record, and exited 0
C22_Witness ==
    /\ pc = "exit"
    /\ status = "0"
    /\ \E k \in 1..Len(results) : results[k].test = "skipped"
    /\ \E k \in 1..Len(results) : results[k].test = "server_start" /\ ~results[k].passed
    /\ \A k \in 1..Len(results) : ~IsCaseRecord(results[k])

\* the position of a record's configuration in its plan and of its test in
\* the declared test cases (0 for server_start and skipped)
PlanPos(r) ==
    IF r.mode = "parser"
    THEN CHOOSE i \in 1..Len(selected) : selected[i] = r.parser
    ELSE Len(selected)
         + (CHOOSE i \in 1..Len(REGRESSION_MODELS) :
                AutoLabel(REGRESSION_MODELS[i].model) = r.parser)
CasePos(r) ==
    IF ~IsCaseRecord(r) THEN 0
    ELSE CHOOSE i \in 1..Len(CasesOf(r.mode)) : CasesOf(r.mode)[i].name = r.test

\* C23: the records are in execution order: configurations in enumeration
\* order (the selected parsers in selection order, then the regression
\* models in declared order), within a configuration the server_start record
\* and then the test cases in declared order; and the list only grows at its
\* end, one record at a time, no earlier record being changed or removed.
C23_ResultsInExecutionOrder ==
    /\ [](\A i, j \in 1..Len(results) :
            i < j =>
               \/ PlanPos(results[i]) < PlanPos(results[j])
               \/ /\ PlanPos(results[i]) = PlanPos(results[j])
                  /\ CasePos(results[i]) < CasePos(results[j]))
    /\ [][\/ results' = results
          \/ /\ Len(results') = Len(results) + 1
             /\ SubSeq(results', 1, Len(results)) = results]_vars

\* C23 witness: a regression configuration's test cases after the records
\* of the parser plan
C23_Witness ==
    /\ Len(results) >= 4
    /\ results[1].mode = "parser"
    /\ results[Len(results)].mode = "regression"
    /\ results[Len(results)].test = "calc_stream"
    /\ results[Len(results) - 1].test = "weather_nonstream"

\* streams with a data line that cannot be folded after part of a tool call
BrokenStreams ==
    { StreamReply(BrokenCall("get_weather", ArgsCity, BadLine)),
      StreamReply(BrokenCall("calculate", ArgsExpr, UsageOnlyLine)),
      StreamReply(BrokenCall("calculate", ArgsExpr, [kind |-> "data", chunk |-> EmptyDict])) }

\* C29: a streamed request whose reply has a data line, before the
\* sentinel, that is not JSON or has no first choice makes send_request
\* raise and return nothing; its test case is recorded as one failing
\* record that carries the exception text and traceback and nothing of an
\* evaluation.
C29_BrokenStreamIsOneFailingRecord ==
    /\ \A b \in BrokenStreams :
          /\ BrokenStream(b)
          /\ send_request(b, TRUE).exc \in {"JSONDecodeError", "KeyError", "IndexError"}
          /\ send_request(b, TRUE).result = EmptyDict
    /\ \A k \in 1..Len(results) :
          (IsCaseRecord(results[k]) /\ results[k].broken) =>
             /\ ~results[k].passed
             /\ DOMAIN results[k].details = {"error", "traceback"}
             /\ results[k].details["error"][1]
                   \in {"JSONDecodeError", "KeyError", "IndexError"}
             /\ Cardinality({j \in 1..Len(results) :
                                /\ results[j].cfg = results[k].cfg
                                /\ results[j].test = results[k].test}) = 1

\* C29 witness: a broken stream recorded as a failure, the next test case
\* of the configuration recorded after it
C29_Witness ==
    \E k \in 1..Len(results) :
        /\ IsCaseRecord(results[k])
        /\ results[k].broken
        /\ "traceback" \in DOMAIN results[k].details
        /\ k < Len(results)
        /\ results[k + 1].cfg = results[k].cfg

----------------------------------------------------------------------------
(* Properties of the order of the finalized calls, of the sentinel, of the *)
(* frame of a fold and of the single choice (SpecStream)                   *)

\* the finalized tool call of a fragment
Finalized(frag) == ToolCall(frag.id, frag.name, PyStr(frag.arguments))

\* the number of fragment indices up to i
Rank(tool_calls, i) == Cardinality({j \in DOMAIN tool_calls : j <= i})

\* C24: the finalized tool calls are the fragments in ascending order of
\* their index, whatever order the indices first arrived in: the fragment
\* with the k-th smallest index is the k-th tool call, so the fragment of
\* the smallest index is the one the evaluator checks.
C24_FinalizedInAscendingIndexOrder ==
    Sent =>
        LET frags == output.st.tool_calls IN
        /\ Len(SentCalls) = Cardinality(DOMAIN frags)
        /\ \A i \in DOMAIN frags : SentCalls[Rank(frags, i)] = Finalized(frags[i])
        /\ \A i \in DOMAIN frags :
              (\A j \in DOMAIN frags : i <= j) =>
                 LET r == evaluate_response(output.ret.result, "calculate") IN
                 /\ r.exc = "none"
                 /\ frags[i].name # "calculate" =>
                       r.details["error"]
                          = <<"Expected tool", "calculate", "but got", frags[i].name>>
                 /\ frags[i].name = "calculate" =>
                       ("error" \in DOMAIN r.details
                          => r.details["error"][1] # "Expected tool")

\* C24 witness: index 1 arrived before index 0, and index 0 is the first
\* finalized tool call
C24_Witness ==
    /\ Sent
    /\ Len(input) >= 2
    /\ input[1] = NameLine(1, "call_3", "calculate", <<"{", "}">>)
    /\ input[2] = NameLine(0, "call_1", "get_weather", <<"{">>)
    /\ SentCalls[1]["id"] = "call_1"
    /\ SentCalls[2]["id"] = "call_3"

\* the lines with one more line at position k
WithLineAt(lines, k, line) ==
    SubSeq(lines, 1, k) \o <<line>> \o SubSeq(lines, k + 1, Len(lines))

\* C25: the sentinel ends the reading without raising and no line after it
\* changes what send_request returns; a blank line or a line without the
\* data prefix anywhere in the stream changes nothing; a stream that ends
\* without a sentinel is assembled from everything folded up to its end.
C25_SentinelEndsConsumption ==
    pc = "sent" =>
        /\ (Len(input) > 0 /\ input[Len(input)] = DoneLine) =>
              /\ output.ret.exc = "none"
              /\ \A extra \in StreamLines :
                    send_request(StreamReply(Append(input, extra)), TRUE) = output.ret
        /\ \A k \in 0..Len(input) : \A skipped \in {BlankLine, OtherLine} :
              send_request(StreamReply(WithLineAt(input, k, skipped)), TRUE) = output.ret
        /\ (output.ret.exc = "none" /\ \A k \in 1..Len(input) : input[k] # DoneLine) =>
              /\ SentMessage["content"] = PyStr(Join(ContentDeltas(input)))
              /\ Len(SentCalls) = Len(IndicesOf(input))
              /\ output.ret.result.choices = StreamChoices(output.st)

\* C25 witness: content, a blank line and a line without the prefix were
\* read before the sentinel
C25_Witness ==
    /\ Sent
    /\ input = << ContentLine(<<"h", "i">>, None), BlankLine, OtherLine, DoneLine >>
    /\ SentMessage["content"] = PyStr(<<"h", "i">>)

\* the entries of one line for index i, and what they carry
EntriesFor(line, i) ==
    SelectSeq(EntriesOf(<<line>>), LAMBDA e : e["index"] = i)
CarriesId(e)   == ~Falsy(Get(e, "id", None))
CarriesName(e) == ~Falsy(Get(Get(e, "function", EmptyDict), "name", None))
CarriesArgs(e) == Truthy(Get(Get(e, "function", EmptyDict), "arguments", PyNone))

\* C28: folding one line leaves every fragment whose index the line does
\* not name as it was; in a fragment it names, the id, the name and the
\* arguments stay as they were unless an entry carries a non-empty value
\* for them; a stored non-empty id or name is never cleared and the stored
\* argument text only grows at its end.
C28_FoldTouchesOnlyWhatTheDeltaCarries ==
    [][\A line \in StreamLines :
          input' = Append(input, line) =>
             LET old == output.st.tool_calls
                 new == output'.st.tool_calls
             IN
             /\ DOMAIN old \subseteq DOMAIN new
             /\ \A j \in DOMAIN old :
                   LET es == EntriesFor(line, j) IN
                   /\ es = <<>> => new[j] = old[j]
                   /\ (\A k \in 1..Len(es) : ~CarriesId(es[k])) => new[j].id = old[j].id
                   /\ (\A k \in 1..Len(es) : ~CarriesName(es[k]))
                         => new[j].name = old[j].name
                   /\ (\A k \in 1..Len(es) : ~CarriesArgs(es[k]))
                         => new[j].arguments = old[j].arguments
                   /\ ~Falsy(old[j].id) => ~Falsy(new[j].id)
                   /\ ~Falsy(old[j].name) => ~Falsy(new[j].name)
                   /\ Len(new[j].arguments) >= Len(old[j].arguments)
                   /\ SubSeq(new[j].arguments, 1, Len(old[j].arguments))
                         = old[j].arguments]_vars

\* C28 witness: after a named call for index 0 and one for index 1, an
\* entry with null id, name and arguments and an entry with arguments only
\* were folded for index 0
C28_Witness ==
    /\ Len(input) = 4
    /\ input[1] = NameLine(0, "call_1", "get_weather", <<"{">>)
    /\ input[2] = NameLine(1, "call_3", "calculate", <<"{", "}">>)
    /\ input[3] = NullEntryLine(0)
    /\ input[4] = ArgLine(0, <<"}">>)
    /\ output.st.tool_calls[0] = [id |-> "call_1", name |-> "get_weather",
                                   arguments |-> <<"{", "}">>]
    /\ output.st.tool_calls[1] = [id |-> "call_3", name |-> "calculate",
                                   arguments |-> <<"{", "}">>]

\* the lines are blank lines, other lines and the sentinel only
NoDataChunk(lines) == \A k \in 1..Len(lines) : lines[k].kind \in {"blank", "other", "done"}

\* C30: a streamed request that returns has exactly one choice, so that
\* its evaluation is never "No choices in response"; a stream without any
\* data chunk, evaluated with an expected tool, fails with "Expected
\* tool_calls but got none", no finish reason and an empty content snippet.
C30_StreamAlwaysHasOneChoice ==
    Sent =>
        /\ Len(output.ret.result.choices) = 1
        /\ \A e \in {"get_weather", "calculate", None} :
              LET r == evaluate_response(output.ret.result, e) IN
              /\ r.exc = "none"
              /\ "error" \in DOMAIN r.details
                    => r.details["error"] # <<"No choices in response">>
              /\ (NoDataChunk(input) /\ e # None) =>
                    /\ ~r.passed
                    /\ r.details = ("error" :> <<"Expected tool_calls but got none">>)
                                    @@ ("finish_reason" :> None)
                                    @@ ("content_snippet" :> <<>>)

\* C30 witness: the stream was the sentinel alone
C30_Witness ==
    /\ Sent
    /\ input = <<DoneLine>>
    /\ ~evaluate_response(output.ret.result, "get_weather").passed

----------------------------------------------------------------------------
(* One assistant message received over both transports: input is the       *)
(* message and the expectation of the test case, output.body and           *)
(* output.stream what evaluate_response makes of the response send_request *)
(* returns for the non-streamed body and for the event stream              *)

MaxCalls == 2

\* the tool calls of a message: id, name and argument text
LogicalCalls ==
    [id : {"call_1", "call_2"}, name : {"get_weather", "calculate"},
     arguments : {ArgsCity, ArgsExpr, BadJson, <<>>}]

\* the sequences over S of length at most n
RECURSIVE SeqsUpTo(_, _)
SeqsUpTo(S, n) ==
    IF n = 0 THEN {<<>>}
    ELSE LET shorter == SeqsUpTo(S, n - 1) IN
         shorter \cup {Append(q, x) : q \in shorter, x \in S}

\* an assistant message: content, tool calls, finish reason (null if none)
LogicalMessages ==
    [content : {<<>>, Sunny}, calls : SeqsUpTo(LogicalCalls, MaxCalls),
     finish : {"stop", "tool_calls", None}]

\* the message as one JSON body; noContent and noCalls are what the server
\* writes for an empty content and for no tool calls (null, "" or [])
AsBody(m, noContent, noCalls) ==
    BodyReply(<< Choice(PyDict(Message(
                    IF m.content = <<>> THEN noContent ELSE PyStr(m.content),
                    IF m.calls = <<>> THEN noCalls
                    ELSE PyList([k \in 1..Len(m.calls) |->
                                   ToolCall(m.calls[k].id, m.calls[k].name,
                                            PyStr(m.calls[k].arguments))]))),
                 m.finish) >>)

\* the lines of the k-th tool call: id, name and the first `cut` characters
\* of the arguments, then the rest of the arguments
CallLines(m, k, cut) ==
    LET a == m.calls[k].arguments
        c == IF cut < Len(a) THEN cut ELSE Len(a)
    IN << NameLine(k - 1, m.calls[k].id, m.calls[k].name, SubSeq(a, 1, c)),
          ArgLine(k - 1, SubSeq(a, c + 1, Len(a))) >>

\* the message as an event stream: the content in two deltas, the tool
\* calls with index 0, 1, ... (all name lines first when namesFirst), a
\* chunk with the finish reason, the sentinel
AsStream(m, cut, namesFirst) ==
    LET n       == Len(m.calls)
        content == IF m.content = <<>> THEN <<>>
                   ELSE << ContentLine(SubSeq(m.content, 1, 1), None),
                           ContentLine(SubSeq(m.content, 2, Len(m.content)), None) >>
        names   == [k \in 1..n |-> CallLines(m, k, cut)[1]]
        rests   == [k \in 1..n |-> CallLines(m, k, cut)[2]]
        inTurn  == [j \in 1..(2 * n) |-> CallLines(m, (j + 1) \div 2, cut)[2 - (j % 2)]]
    IN StreamReply(content \o (IF namesFirst THEN names \o rests ELSE inTurn)
                   \o << DataLine(EmptyDict, m.finish), DoneLine >>)

\* try: result = send_request(...); passed, details = evaluate_response(...)
Verdict(reply, stream, expected) ==
    LET r == send_request(reply, stream) IN
    IF r.exc # "none" THEN [exc |-> r.exc, passed |-> FALSE, details |-> EmptyDict]
    ELSE evaluate_response(r.result, expected)

Pending == [exc |-> "pending", passed |-> FALSE, details |-> EmptyDict]

\* the message arrives as one non-streamed JSON body
ArriveAsBody ==
    /\ pc = "transport"
    /\ output.body = Pending
    /\ \E noContent \in {PyNone, PyStr(<<>>)}, noCalls \in {PyNone, PyList(<<>>)} :
          output' = [output EXCEPT !.body =
                       Verdict(AsBody(input.message, noContent, noCalls), FALSE,
                               input.expected)]
    /\ UNCHANGED <<pc, input, harness>>

\* the message arrives as an event stream
ArriveAsStream ==
    /\ pc = "transport"
    /\ output.stream = Pending
    /\ \E cut \in 0..2, namesFirst \in BOOLEAN :
          output' = [output EXCEPT !.stream =
                       Verdict(AsStream(input.message, cut, namesFirst), TRUE,
                               input.expected)]
    /\ UNCHANGED <<pc, input, harness>>

InitTransport ==
    /\ args = [parsers |-> <<>>, include_large |-> FALSE, no_regression |-> FALSE,
               regression_only |-> FALSE]
    /\ binary = TRUE
    /\ cache = {}
    /\ pc = "transport"
    /\ mode = "parser"
    /\ selected = <<>>
    /\ pi = 1
    /\ ri = 1
    /\ cur = [parser |-> "hermes", label |-> "hermes", model |-> Qwen30B,
              description |-> ""]
    /\ cfgN = 1
    /\ entered = {1}
    /\ results = <<>>
    /\ proc = NoProc
    /\ groups = <<>>
    /\ attempts = 0
    /\ waitRes = "true"
    /\ ci = 1
    /\ exc = "none"
    /\ killLog = NoKill
    /\ kcalls = 0
    /\ killed = {}
    /\ returned = {}
    /\ written = NotWritten
    /\ status = "running"
    /\ cooled = {}
    /\ logs = <<>>
    /\ \E m \in LogicalMessages, e \in {"get_weather", "calculate", None} :
          input = [message |-> m, expected |-> e]
    /\ output = [body |-> Pending, stream |-> Pending]

NextTransport ==
    \/ ArriveAsBody
    \/ ArriveAsStream

SpecTransport == InitTransport /\ [][NextTransport]_vars

====
